---- MODULE Spec2Model ----
(***************************************************************************)
(* Signal K -> LwM2M bridge: the subscriber's connection lifecycle, the    *)
(* dispatch engine with its helper and template processors, the mandatory  *)
(* resource validator and the 3GPP TS 23.032 velocity codec.               *)
(*                                                                         *)
(* Conventions                                                             *)
(*  - A dotted path "a.b.c" is the sequence of its segments <<"a","b","c">>*)
(*    (what split('.') returns), so startsWith('x.') is a test on the      *)
(*    first segment.                                                       *)
(*  - A JSON value is a record tagged by k: "undef", "null", "num", "str", *)
(*    "obj", "hex" (an upper-case hex string, digit by digit), "dec" (the  *)
(*    decimal text of a number).                                           *)
(*  - A number is n/d * pi^pi with d > 0, kept in lowest terms, so that    *)
(*    unit conversions and the radian -> degree step are exact.            *)
(*  - An optional field that is absent is Undefined (ids), "" (names) or   *)
(*    the empty tuple <<>>; a present optional object is <<object>>.       *)
(***************************************************************************)
EXTENDS Integers, Sequences, FiniteSets, TLC

\* ------------------------------------------------------------------ bounds
\* Largest maxReconnectAttempts a system configuration of the model carries.
MaxAttempts == 3
\* Cap on the WebSocket objects one run creates.
MaxSocks == 3
\* The same cap where inbound messages and the client process interleave.
MaxBridgeSocks == 2
\* Cap on the inbound messages one run receives.
MaxMsgs == 2

\* ------------------------------------------------------------------ values
Undefined == -1

Undef == [k |-> "undef"]
Null == [k |-> "null"]
Str(s) == [k |-> "str", s |-> s]
Obj(f) == [k |-> "obj", f |-> f]

RECURSIVE Gcd(_, _)
Gcd(a, b) == IF b = 0 THEN a ELSE Gcd(b, a % b)

Abs(x) == IF x < 0 THEN -x ELSE x

\* The number n/d * pi^e in lowest terms.
Num(n, d, e) ==
  IF n = 0 THEN [k |-> "num", n |-> 0, d |-> 1, pi |-> 0]
  ELSE LET g == Gcd(Abs(n), Abs(d))
           s == IF d < 0 THEN -1 ELSE 1
       IN [k |-> "num", n |-> (s * n) \div g, d |-> (s * d) \div g, pi |-> e]

Int2Num(i) == Num(i, 1, 0)

IsNum(v) == v.k = "num"
IsNullish(v) == v.k \in {"undef", "null"}

\* JavaScript truthiness of a value: undefined, null, 0 and "" are falsy.
Truthy(v) ==
  CASE v.k \in {"undef", "null"} -> FALSE
    [] v.k = "num" -> v.n # 0
    [] v.k = "str" -> v.s # ""
    [] OTHER -> TRUE

\* ------------------------------------------------- integer and bit arithmetic
Min(a, b) == IF a < b THEN a ELSE b
Max(a, b) == IF a > b THEN a ELSE b

\* A variant of Math.round that drops the fraction.
MathRound_Down(p, q) == p \div q

\* Math.round of the rational p/q (q > 0): the nearest integer, ties upwards.
MathRound(p, q) == (2 * p + q) \div (2 * q)

\* JavaScript's % on integers: the remainder has the sign of the dividend.
JsRem(a, b) == IF a >= 0 THEN a % b ELSE -((-a) % b)

RECURSIVE BitAnd(_, _)
BitAnd(a, b) ==
  IF a = 0 \/ b = 0 THEN 0
  ELSE 2 * BitAnd(a \div 2, b \div 2) + (IF a % 2 = 1 /\ b % 2 = 1 THEN 1 ELSE 0)

RECURSIVE BitOr(_, _)
BitOr(a, b) ==
  IF a = 0 THEN b
  ELSE IF b = 0 THEN a
  ELSE 2 * BitOr(a \div 2, b \div 2) + (IF a % 2 = 1 \/ b % 2 = 1 THEN 1 ELSE 0)

RECURSIVE Pow2(_)
Pow2(k) == IF k = 0 THEN 1 ELSE 2 * Pow2(k - 1)

\* x << k and x >> k on non-negative operands; the codec shifts 11-bit fields
\* by at most 5, far from the 32-bit wrap of JavaScript's <<.
Shl(x, k) == x * Pow2(k)
Shr(x, k) == x \div Pow2(k)

\* ------------------------------------------ helpers.ts: the velocity codec
\* (value || 0) * 3.6 as the rational <<p, q>>; the model carries plain
\* rationals (pi = 0) on speed inputs.  An object in the place of the number
\* makes the product NaN, which Math.round, Math.max and Math.min hand on and
\* every shift and mask of the packing reads as 0: it is carried as 0.
SpeedKmh(v) ==
  IF ~Truthy(v) \/ v.k = "obj" THEN <<0, 1>>
  ELSE CASE IsNum(v) /\ v.pi = 0 -> <<v.n * 18, v.d * 5>>

\* course * 180 / Math.PI as the rational <<p, q>>; a non-zero course of the
\* model is a rational multiple of pi (pi = 1).
CourseDegrees(v) ==
  CASE IsNum(v) /\ v.n = 0 -> <<0, 1>>
    [] IsNum(v) /\ v.n # 0 /\ v.pi = 1 -> <<v.n * 180, v.d>>

\* interface VelocityData: three optional numbers.
VelocityData(speedOverGround, courseOverGround, verticalSpeed) ==
  [speedOverGround |-> speedOverGround, courseOverGround |-> courseOverGround,
   verticalSpeed |-> verticalSpeed]
NoVelocityData == VelocityData(Undef, Undef, Undef)

encode3GPPVelocity(velocityData) ==
  LET hs == SpeedKmh(velocityData.speedOverGround)
      horizontalSpeed == Min(Max(MathRound(hs[1], hs[2]), 0), 2047)
      deg == CourseDegrees(velocityData.courseOverGround)
      \* bearing = degrees % 360; if (bearing < 0) bearing += 360
      rem == JsRem(deg[1], 360 * deg[2])
      bearingP == IF IsNullish(velocityData.courseOverGround) THEN 0
                  ELSE IF rem < 0 THEN rem + 360 * deg[2] ELSE rem
      bearingQ == IF IsNullish(velocityData.courseOverGround) THEN 1 ELSE deg[2]
      vs == SpeedKmh(velocityData.verticalSpeed)
      verticalSpeed == Min(Max(MathRound(Abs(vs[1]), vs[2]), 0), 255)
  IN [horizontalSpeed |-> horizontalSpeed,
      bearing |-> MathRound(bearingP, bearingQ),
      verticalSpeed |-> verticalSpeed,
      verticalDirection |-> TRUE,
      horizontalUncertainty |-> 0,
      verticalUncertainty |-> 0]

\* A variant that does not write the vertical direction flag.
encodeGADVelocityBinary_NoDirection(gadVelocity) ==
  LET horizontalSpeed == Min(gadVelocity.horizontalSpeed, 2047)
      word0 == BitAnd(Shl(horizontalSpeed, 5), 65504)
      bearing == Min(gadVelocity.bearing, 359)
      word1 == BitOr(word0, Shr(bearing, 4))
      b2a == Shl(BitAnd(bearing, 15), 4) % 256
      verticalSpeed == Min(gadVelocity.verticalSpeed, 255)
      b2 == BitOr(b2a, BitAnd(Shr(verticalSpeed, 4), 15))
      b3a == Shl(BitAnd(verticalSpeed, 15), 4) % 256
      horizontalUncertainty == Min(gadVelocity.horizontalUncertainty, 255)
      b3 == BitOr(b3a, BitAnd(Shr(horizontalUncertainty, 5), 7))
      b4a == Shl(BitAnd(horizontalUncertainty, 31), 3) % 256
      verticalUncertainty == Min(gadVelocity.verticalUncertainty, 255)
      b4 == BitOr(b4a, BitAnd(Shr(verticalUncertainty, 5), 7))
      b5 == Shl(BitAnd(verticalUncertainty, 31), 3) % 256
  IN <<word1 \div 256, word1 % 256, b2, b3, b4, b5>>

\* The 6-byte buffer, byte by byte as the code writes it.
encodeGADVelocityBinary(gadVelocity) ==
  LET horizontalSpeed == Min(gadVelocity.horizontalSpeed, 2047)
      word0 == BitAnd(Shl(horizontalSpeed, 5), 65504)
      bearing == Min(gadVelocity.bearing, 359)
      word1 == BitOr(word0, Shr(bearing, 4))
      b2a == Shl(BitAnd(bearing, 15), 4) % 256
      verticalSpeed == Min(gadVelocity.verticalSpeed, 255)
      b2 == BitOr(b2a, BitAnd(Shr(verticalSpeed, 4), 15))
      b3a == Shl(BitAnd(verticalSpeed, 15), 4) % 256
      b3b == IF gadVelocity.verticalDirection THEN BitOr(b3a, 8) ELSE b3a
      horizontalUncertainty == Min(gadVelocity.horizontalUncertainty, 255)
      b3 == BitOr(b3b, BitAnd(Shr(horizontalUncertainty, 5), 7))
      b4a == Shl(BitAnd(horizontalUncertainty, 31), 3) % 256
      verticalUncertainty == Min(gadVelocity.verticalUncertainty, 255)
      b4 == BitOr(b4a, BitAnd(Shr(verticalUncertainty, 5), 7))
      b5 == Shl(BitAnd(verticalUncertainty, 31), 3) % 256
  IN <<word1 \div 256, word1 % 256, b2, b3, b4, b5>>

HexDigits == <<"0", "1", "2", "3", "4", "5", "6", "7",
               "8", "9", "A", "B", "C", "D", "E", "F">>

\* buffer.toString('hex').toUpperCase(): two digits per byte.
ToHexUpper(buffer) ==
  [i \in 1..(2 * Len(buffer)) |->
     LET b == buffer[(i + 1) \div 2]
     IN HexDigits[(IF i % 2 = 1 THEN b \div 16 ELSE b % 16) + 1]]

Hex(buffer) == [k |-> "hex", h |-> ToHexUpper(buffer)]

\* What a function raises instead of returning.
Throw == [k |-> "throw"]

\* A property of a value that is not an object reads as undefined.
Field(v, key) ==
  IF v.k = "obj" /\ key \in DOMAIN v.f THEN v.f[key] ELSE Undef

\* navigationData.speedOverGround is read without a guard: on undefined or
\* null the property read raises a TypeError.
convertNavigationTo3GPPVelocity(navigationData) ==
  LET sog == Field(navigationData, "speedOverGround")
      velocityData == [speedOverGround |-> IF Truthy(sog) THEN sog ELSE Int2Num(0),
                       courseOverGround |-> Field(navigationData, "courseOverGround"),
                       verticalSpeed |-> Int2Num(0)]
  IN IF IsNullish(navigationData) THEN Throw
     ELSE Hex(encodeGADVelocityBinary(encode3GPPVelocity(velocityData)))

convertSpeedTo3GPPVelocity(speed) ==
  LET velocityData == [speedOverGround |-> speed,
                       courseOverGround |-> Undef,
                       verticalSpeed |-> Int2Num(0)]
  IN Hex(encodeGADVelocityBinary(encode3GPPVelocity(velocityData)))

convertTo3GPPVelocity(signalKVelocity) ==
  LET velocityData ==
        IF IsNum(signalKVelocity)
        THEN [speedOverGround |-> signalKVelocity,
              courseOverGround |-> Undef, verticalSpeed |-> Undef]
        ELSE IF signalKVelocity.k = "obj"
        THEN [speedOverGround |-> Field(signalKVelocity, "speedOverGround"),
              courseOverGround |-> Field(signalKVelocity, "courseOverGround"),
              verticalSpeed |-> Field(signalKVelocity, "verticalSpeed")]
        ELSE [speedOverGround |-> Undef,
              courseOverGround |-> Undef, verticalSpeed |-> Undef]
  IN Hex(encodeGADVelocityBinary(encode3GPPVelocity(velocityData)))

\* --------------------------------------- helpers.ts: the conversion registry
NaN == [k |-> "nan"]

\* The numeric operand of an arithmetic conversion: null counts as 0, anything
\* else that is no number as NaN.
ToNumber(v) ==
  CASE IsNum(v) -> v
    [] v.k = "null" -> Int2Num(0)
    [] OTHER -> NaN

\* value - 273.15, on plain rationals.
kelvin_to_celsius(value) ==
  LET v == ToNumber(value)
  IN IF v = NaN THEN NaN
     ELSE CASE v.pi = 0 -> Num(v.n * 20 - 5463 * v.d, v.d * 20, 0)

\* value * 180 / Math.PI
radians_to_degrees(value) ==
  LET v == ToNumber(value)
  IN IF v = NaN THEN NaN ELSE Num(v.n * 180, v.d, v.pi - 1)

\* value * 1.94384
meters_per_second_to_knots(value) ==
  LET v == ToNumber(value)
  IN IF v = NaN THEN NaN ELSE Num(v.n * 24298, v.d * 12500, v.pi)

\* value * 3.6
meters_per_second_to_kmh(value) ==
  LET v == ToNumber(value)
  IN IF v = NaN THEN NaN ELSE Num(v.n * 18, v.d * 5, v.pi)

\* value * 100
ratio_to_percentage(value) ==
  LET v == ToNumber(value)
  IN IF v = NaN THEN NaN ELSE Num(v.n * 100, v.d, v.pi)

\* The names the conversions object defines itself.
conversions ==
  {"kelvin_to_celsius", "radians_to_degrees", "meters_per_second_to_knots",
   "meters_per_second_to_kmh", "ratio_to_percentage", "none",
   "3gpp_ts_23032_velocity", "3gpp_ts_23032_velocity_from_speed",
   "3gpp_ts_23032_velocity_navigation"}

\* conversions[conversionType] is a plain property read, so a name the object
\* inherits from Object.prototype is found too: "toString" is a function
\* (called without a receiver it yields "[object Undefined]"), "__proto__" is
\* an object, and calling it raises a TypeError.
applyConversion(value, conversionType) ==
  CASE conversionType = "kelvin_to_celsius" -> kelvin_to_celsius(value)
    [] conversionType = "radians_to_degrees" -> radians_to_degrees(value)
    [] conversionType = "meters_per_second_to_knots" -> meters_per_second_to_knots(value)
    [] conversionType = "meters_per_second_to_kmh" -> meters_per_second_to_kmh(value)
    [] conversionType = "ratio_to_percentage" -> ratio_to_percentage(value)
    [] conversionType = "none" -> value
    [] conversionType = "3gpp_ts_23032_velocity" -> convertTo3GPPVelocity(value)
    [] conversionType = "3gpp_ts_23032_velocity_from_speed" -> convertSpeedTo3GPPVelocity(value)
    [] conversionType = "3gpp_ts_23032_velocity_navigation" -> convertNavigationTo3GPPVelocity(value)
    [] conversionType = "toString" -> Str("[object Undefined]")
    [] conversionType = "__proto__" -> Throw
    [] OTHER -> value

\* ------------------------------------------------ finite maps and sequences
\* A JavaScript object used as a map: a function on the set of its own keys.
EmptyMap == [x \in {} |-> Undef]
Put(m, key, v) == [x \in DOMAIN m \cup {key} |-> IF x = key THEN v ELSE m[x]]
Get(m, key) == IF key \in DOMAIN m THEN m[key] ELSE Undef

SetMin(S) == CHOOSE x \in S : \A y \in S : x <= y

\* The elements of a finite set of integers in ascending order: the order in
\* which Object.entries lists integer-like keys.
RECURSIVE Ascending(_)
Ascending(S) ==
  IF S = {} THEN <<>> ELSE <<SetMin(S)>> \o Ascending(S \ {SetMin(S)})

\* Array.prototype.find as an index: the first position whose element
\* passes the test, 0 when there is none.  tests[i] is the test of element i.
FindIndex(tests) ==
  LET hits == {i \in 1..Len(tests) : tests[i]}
  IN IF hits = {} THEN 0 ELSE SetMin(hits)

RECURSIVE Concat(_)
Concat(seqs) == IF seqs = <<>> THEN <<>> ELSE Head(seqs) \o Concat(Tail(seqs))

\* ------------------------------------- helpers.ts: the emergency fallback
\* A variant of ensureObject3336Coordinates that fills the latitude only.
ensureObject3336Coordinates_LatitudeOnly(extractedResources) ==
  IF 6051 \notin DOMAIN extractedResources \/ IsNullish(extractedResources[6051])
  THEN Put(extractedResources, 6051, Int2Num(0))
  ELSE extractedResources

\* A variant of ensureObject3336Coordinates that resets both coordinates as
\* soon as one of them is missing.
ensureObject3336Coordinates_Both(extractedResources) ==
  LET needs(id) == id \notin DOMAIN extractedResources
                   \/ IsNullish(extractedResources[id])
  IN IF needs(6051) \/ needs(6052)
     THEN Put(Put(extractedResources, 6051, Int2Num(0)), 6052, Int2Num(0))
     ELSE extractedResources

ensureObject3336Coordinates(extractedResources) ==
  LET needs(id) == id \notin DOMAIN extractedResources
                   \/ IsNullish(extractedResources[id])
      withLat == IF needs(6051) THEN Put(extractedResources, 6051, Int2Num(0))
                 ELSE extractedResources
  IN IF needs(6052) THEN Put(withLat, 6052, Int2Num(0)) ELSE withLat

\* ------------------------------ the object schema files of the config directory
\* A schema file lwm2m-object-<id>.xml: the text of the object's own <Name>
\* ("" when it has none) and its <Item> elements in file order, each with its
\* ID, the text of its <Name> and of its <Mandatory> ("" when absent).  The
\* config directory maps object ids to schema files.
Item(id, name, mandatory) == [id |-> id, name |-> name, mandatory |-> mandatory]

\* mandatoryMatch[1].toLowerCase() === 'mandatory'
IsMandatoryText(t) == t \in {"Mandatory", "mandatory", "MANDATORY"}

\* `Object ${objectId}` and a name read from a file.
ObjectLabel(id) == [text |-> "Object", id |-> id]
Name(text) == [text |-> text]

\* xmlContent.match(/<Name>([^<]+)<\/Name>/): the first <Name> of the file,
\* which is the first item's when the object carries none.
FirstName(xml, objectId) ==
  LET named == SelectSeq(xml.items, LAMBDA it : it.name # "")
  IN IF xml.name # "" THEN Name(xml.name)
     ELSE IF named # <<>> THEN Name(named[1].name)
     ELSE ObjectLabel(objectId)

\* --------------------------- helpers.ts: the legacy schema-parsing validator
\* The resources keyed by id (a later item of the same id replaces an earlier
\* one); an item without a <Name> is skipped.
parseLwM2MObjectSpec(configDir, objectId) ==
  IF objectId \notin DOMAIN configDir THEN <<>>
  ELSE LET xml == configDir[objectId]
           named == SelectSeq(xml.items, LAMBDA it : it.name # "")
           ids == {named[i].id : i \in 1..Len(named)}
           last(id) == named[CHOOSE i \in 1..Len(named) :
                               /\ named[i].id = id
                               /\ \A j \in (i + 1)..Len(named) : named[j].id # id]
       IN <<[objectId |-> objectId,
             name |-> FirstName(xml, objectId),
             resources |-> [id \in ids |->
                              [id |-> id, name |-> last(id).name,
                               mandatory |-> IsMandatoryText(last(id).mandatory)]]]>>

\* A label of the legacy missing list: `Resource ${id} (${name})`.
ResourceNameLabel(id, name) == [text |-> "Resource", id |-> id, name |-> name]

validateMandatoryResources(configDir, objectId, providedResources) ==
  IF objectId = Undefined THEN Throw   \* objectId.toString() of undefined
  ELSE LET spec == parseLwM2MObjectSpec(configDir, objectId)
       IN IF spec = <<>>
          THEN [valid |-> TRUE, missingMandatory |-> <<>>,
                objectName |-> ObjectLabel(objectId)]
          ELSE LET res == spec[1].resources
                   missing == SelectSeq(Ascending(DOMAIN res),
                                LAMBDA id : res[id].mandatory
                                            /\ id \notin DOMAIN providedResources)
               IN [valid |-> Len(missing) = 0,
                   missingMandatory |->
                     [i \in 1..Len(missing) |->
                        ResourceNameLabel(missing[i], res[missing[i]].name)],
                   objectName |-> spec[1].name]

\* ------------------------ mandatory-resources.ts: the cached validator
\* A variant of generateMandatoryResourcesCache that publishes the cache
\* while it is being built: each entry holds the first mandatory id only.
generateMandatoryResourcesCache_Partial(configDir) ==
  [objects |->
     [objectId \in DOMAIN configDir |->
        LET xml == configDir[objectId]
            mand == SelectSeq(xml.items, LAMBDA it : IsMandatoryText(it.mandatory))
        IN [objectId |-> objectId,
            objectName |-> FirstName(xml, objectId),
            mandatoryResources |-> [i \in 1..(IF mand = <<>> THEN 0 ELSE 1) |-> mand[i].id]]]]

\* One cache entry per schema file: the ids of the items whose <Mandatory>
\* reads "mandatory", in file order.
generateMandatoryResourcesCache(configDir) ==
  [objects |->
     [objectId \in DOMAIN configDir |->
        LET xml == configDir[objectId]
            mand == SelectSeq(xml.items, LAMBDA it : IsMandatoryText(it.mandatory))
        IN [objectId |-> objectId,
            objectName |-> FirstName(xml, objectId),
            mandatoryResources |-> [i \in 1..Len(mand) |-> mand[i].id]]]]

\* The file mandatory-resources.json: absent, present but not readable,
\* readable but no JSON text (empty or cut short), or the JSON text of a
\* cache.
Missing == [k |-> "missing"]
Unreadable == [k |-> "unreadable"]
Truncated == [k |-> "truncated"]
Json(cache) == [k |-> "json", cache |-> cache]

\* The cache returned, and whether it was generated rather than read.
\* A variant of loadMandatoryResourcesCache that starts with an empty cache
\* when the snapshot cannot be used.
loadMandatoryResourcesCache_NoFallback(snapshot, configDir) ==
  IF snapshot.k = "json"
  THEN [cache |-> snapshot.cache, generated |-> FALSE]
  ELSE [cache |-> [objects |-> EmptyMap], generated |-> FALSE]

loadMandatoryResourcesCache(snapshot, configDir) ==
  IF snapshot.k = "json"
  THEN [cache |-> snapshot.cache, generated |-> FALSE]
  ELSE \* no file, or readFileSync or JSON.parse raised
       [cache |-> generateMandatoryResourcesCache(configDir), generated |-> TRUE]

\* A label of the missing list: `Resource ${resourceId}`.
ResourceLabel(id) == [text |-> "Resource", id |-> id]

\* The in-memory cache is <<>> while it is not initialised and <<cache>> once
\* it is; without it the validator falls back to the legacy one.
\* A variant of validateMandatoryResourcesFast that takes a key whose value
\* is undefined or null for an absent one.
validateMandatoryResourcesFast_Truthy(cache, configDir, objectId, providedResources) ==
  IF cache = <<>>
  THEN validateMandatoryResources(configDir, objectId, providedResources)
  ELSE IF objectId = Undefined THEN Throw
  ELSE IF objectId \notin DOMAIN cache[1].objects
  THEN [valid |-> TRUE, missingMandatory |-> <<>>,
        objectName |-> ObjectLabel(objectId)]
  ELSE LET objectInfo == cache[1].objects[objectId]
           absent(id) == IsNullish(Get(providedResources, id))
           missing == SelectSeq(objectInfo.mandatoryResources, absent)
       IN [valid |-> Len(missing) = 0,
           missingMandatory |-> [i \in 1..Len(missing) |-> ResourceLabel(missing[i])],
           objectName |-> objectInfo.objectName]

\* A variant of validateMandatoryResourcesFast that rejects what it does not
\* know.
validateMandatoryResourcesFast_Strict(cache, configDir, objectId, providedResources) ==
  IF cache = <<>>
  THEN validateMandatoryResources(configDir, objectId, providedResources)
  ELSE IF objectId = Undefined THEN Throw
  ELSE IF objectId \notin DOMAIN cache[1].objects
  THEN [valid |-> FALSE, missingMandatory |-> <<>>,
        objectName |-> ObjectLabel(objectId)]
  ELSE LET objectInfo == cache[1].objects[objectId]
           absent(id) == id \notin DOMAIN providedResources
           missing == SelectSeq(objectInfo.mandatoryResources, absent)
       IN [valid |-> Len(missing) = 0,
           missingMandatory |-> [i \in 1..Len(missing) |-> ResourceLabel(missing[i])],
           objectName |-> objectInfo.objectName]

validateMandatoryResourcesFast(cache, configDir, objectId, providedResources) ==
  IF cache = <<>>
  THEN validateMandatoryResources(configDir, objectId, providedResources)
  ELSE IF objectId = Undefined THEN Throw   \* objectId.toString() of undefined
  ELSE IF objectId \notin DOMAIN cache[1].objects
  THEN [valid |-> TRUE, missingMandatory |-> <<>>,
        objectName |-> ObjectLabel(objectId)]
  ELSE LET objectInfo == cache[1].objects[objectId]
           absent(id) == id \notin DOMAIN providedResources
           missing == SelectSeq(objectInfo.mandatoryResources, absent)
       IN [valid |-> Len(missing) = 0,
           missingMandatory |-> [i \in 1..Len(missing) |-> ResourceLabel(missing[i])],
           objectName |-> objectInfo.objectName]

\* ------------------------------------------------ signalk-client.ts: paths
SpeedPath == <<"navigation", "speedOverGround">>
CoursePath == <<"navigation", "courseOverGroundTrue">>
VelocityHelperPath == <<"helpers", "3gpp_ts_23032_velocity">>
NotificationsTemplate == <<"notifications", "*">>

\* signalkPath.startsWith('helpers.')
IsHelperPath(path) == Len(path) >= 2 /\ path[1] = "helpers"

\* signalkPath.replace('helpers.', '') of a helper path
HelperType(path) == Tail(path)

\* ------------------------------------- signalk-client.ts: LwM2MMapping
\* A mapping entry without overrides, template fields or conversion.
Mapping(signalkPath, object_id, instance_id, resource_id) ==
  [signalkPath |-> signalkPath, object_id |-> object_id,
   instance_id |-> instance_id, resource_id |-> resource_id,
   conversion |-> "", period |-> Undefined, format |-> "", policy |-> "",
   minPeriod |-> Undefined, template_mapping |-> FALSE,
   instance_mapping |-> <<>>, resources |-> <<>>]

IsComplete(mapping) ==
  /\ mapping.object_id # Undefined
  /\ mapping.instance_id # Undefined
  /\ mapping.resource_id # Undefined

\* ------------------------- lwm2m-controller.ts: the command of one update
\* `${value}` of a template literal.
Stringify(v) ==
  CASE v.k = "num" -> [k |-> "dec", n |-> v.n, d |-> v.d, pi |-> v.pi]
    [] v.k = "obj" -> Str("[object Object]")
    [] v.k = "null" -> Str("null")
    [] v.k = "undef" -> Str("undefined")
    [] v.k = "nan" -> Str("NaN")
    [] OTHER -> v

\* `change /${objectId}/${instanceId}/${resourceId} ${value}`
updateObjectResource(objectId, instanceId, resourceId, value) ==
  [op |-> "change", objectId |-> objectId, instanceId |-> instanceId,
   resourceId |-> resourceId, value |-> Stringify(value)]

\* One call of controller.updateObjectResource by the dispatch engine: the
\* command, the processor that made the call and the position of the mapping
\* entry it made it for.
Emit(via, entry, cmd) == [via |-> via, entry |-> entry, cmd |-> cmd]

\* --------------------------------- signalk-client.ts: the helper processor
\* A variant of the velocity helper that waits for both of its inputs.
process3GPPVelocityHelper_NeedsBoth(mapping, entry, helperPathData) ==
  LET speedOverGround == Get(helperPathData, SpeedPath)
      courseOverGround == Get(helperPathData, CoursePath)
      velocityData == Obj([speedOverGround |-> speedOverGround,
                           courseOverGround |-> courseOverGround,
                           verticalSpeed |-> Undef])
      Update(gadVelocityHex) ==
        IF IsComplete(mapping)
        THEN <<Emit("helper", entry,
                    updateObjectResource(mapping.object_id, mapping.instance_id,
                                         mapping.resource_id, gadVelocityHex))>>
        ELSE <<>>
  IN IF IsNullish(speedOverGround) \/ IsNullish(courseOverGround) THEN <<>>
     ELSE Update(applyConversion(velocityData, "3gpp_ts_23032_velocity_navigation"))

process3GPPVelocityHelper(mapping, entry, helperPathData) ==
  LET speedOverGround == Get(helperPathData, SpeedPath)
      courseOverGround == Get(helperPathData, CoursePath)
      velocityData == Obj([speedOverGround |-> speedOverGround,
                           courseOverGround |-> courseOverGround,
                           verticalSpeed |-> Undef])
      Update(gadVelocityHex) ==
        IF IsComplete(mapping)
        THEN <<Emit("helper", entry,
                    updateObjectResource(mapping.object_id, mapping.instance_id,
                                         mapping.resource_id, gadVelocityHex))>>
        ELSE <<>>
  IN IF IsNullish(speedOverGround) THEN <<>>
     ELSE Update(applyConversion(velocityData, "3gpp_ts_23032_velocity_navigation"))

processHelperPaths(mappings, helperPathData) ==
  Concat([i \in 1..Len(mappings) |->
            IF /\ IsHelperPath(mappings[i].signalkPath)
               /\ HelperType(mappings[i].signalkPath) = <<"3gpp_ts_23032_velocity">>
            THEN process3GPPVelocityHelper(mappings[i], i, helperPathData)
            ELSE <<>>])

\* ------------------------------- signalk-client.ts: the template processor
\* Names every plain object inherits from Object.prototype, and the value a
\* read of one of them yields in the place of an instance id: a function or
\* an object, never undefined.
ObjectPrototype == {"constructor", "toString", "__proto__"}
Inherited == -2

\* mapping.instance_mapping[notificationType]: a plain property read, which
\* finds the keys of the table and the inherited names; Undefined otherwise.
OwnOrInherited(instance_mapping, notificationType) ==
  IF notificationType \in DOMAIN instance_mapping
  THEN instance_mapping[notificationType]
  ELSE IF notificationType \in ObjectPrototype THEN Inherited
  ELSE Undefined

matchesTemplate(signalKPath, templatePath) ==
  IF signalKPath = <<>> \/ templatePath = <<>> THEN FALSE
  ELSE IF templatePath = NotificationsTemplate
  THEN /\ Len(signalKPath) >= 2
       /\ signalKPath[1] = "notifications"
       /\ signalKPath # NotificationsTemplate
  ELSE FALSE

\* path.split('.').reduce((current, key) => current?.[key], obj)
RECURSIVE extractNestedValue(_, _)
extractNestedValue(obj, path) ==
  IF path = <<>> THEN obj
  ELSE extractNestedValue(IF IsNullish(obj) THEN Undef ELSE Field(obj, Head(path)),
                          Tail(path))

\* A variant of ExtractResources that also keeps a resource whose extraction
\* yields null or undefined.
RECURSIVE ExtractResources_KeepNull(_, _, _, _, _)
ExtractResources_KeepNull(ids, resources, value, uuid, extractedResources) ==
  IF ids = <<>> THEN extractedResources
  ELSE LET resourceId == Head(ids)
           sourcePath == resources[resourceId]
           extractedValue == IF sourcePath = <<"uuid">> THEN Str(uuid)
                             ELSE extractNestedValue(value, sourcePath)
       IN ExtractResources_KeepNull(Tail(ids), resources, value, uuid,
                                    Put(extractedResources, resourceId, extractedValue))

\* The first pass of the template processor: the resources whose extraction
\* yields a value.
RECURSIVE ExtractResources(_, _, _, _, _)
ExtractResources(ids, resources, value, uuid, extractedResources) ==
  IF ids = <<>> THEN extractedResources
  ELSE LET resourceId == Head(ids)
           sourcePath == resources[resourceId]
           extractedValue == IF sourcePath = <<"uuid">> THEN Str(uuid)
                             ELSE extractNestedValue(value, sourcePath)
       IN ExtractResources(Tail(ids), resources, value, uuid,
                           IF IsNullish(extractedValue) THEN extractedResources
                           ELSE Put(extractedResources, resourceId, extractedValue))

\* A variant of processTemplateMapping whose validation is advisory: the
\* resources are sent whatever the validator answers.
processTemplateMapping_Advisory(cache, configDir, signalKPath, value, mapping, entry) ==
  IF ~mapping.template_mapping \/ mapping.instance_mapping = <<>>
     \/ mapping.resources = <<>>
  THEN <<>>
  ELSE IF Len(signalKPath) < 3 \/ signalKPath[1] # "notifications" THEN <<>>
  ELSE LET uuid == signalKPath[3]
           instance_mapping == mapping.instance_mapping[1]
           resources == mapping.resources[1]
           UpdateAll(finalResources, ids) ==
             [i \in 1..Len(ids) |->
                Emit("template", entry,
                     updateObjectResource(mapping.object_id,
                                          OwnOrInherited(instance_mapping,
                                                         signalKPath[2]),
                                          ids[i], finalResources[ids[i]]))]
           Fallback(extractedResources) ==
             UpdateAll(extractedResources, Ascending(DOMAIN extractedResources))
       IN IF OwnOrInherited(instance_mapping, signalKPath[2]) = Undefined THEN <<>>
          ELSE Fallback(ExtractResources(Ascending(DOMAIN resources), resources,
                                         value, uuid, EmptyMap))

\* A variant of processTemplateMapping that sends every notification to
\* instance 0.
processTemplateMapping_InstanceZero(cache, configDir, signalKPath, value, mapping, entry) ==
  IF ~mapping.template_mapping \/ mapping.instance_mapping = <<>>
     \/ mapping.resources = <<>>
  THEN <<>>
  ELSE IF Len(signalKPath) < 3 \/ signalKPath[1] # "notifications" THEN <<>>
  ELSE LET notificationType == signalKPath[2]
           uuid == signalKPath[3]
           instance_mapping == mapping.instance_mapping[1]
           resources == mapping.resources[1]
       IN IF OwnOrInherited(instance_mapping, notificationType) = Undefined THEN <<>>
          ELSE LET instanceId == 0
                   \* the loop over the validated resources
                   UpdateAll(finalResources, validation, ids) ==
                     IF validation = Throw THEN <<>>      \* caught and logged
                     ELSE IF ~validation.valid THEN <<>>  \* the whole update is skipped
                     ELSE [i \in 1..Len(ids) |->
                             Emit("template", entry,
                                  updateObjectResource(mapping.object_id, instanceId,
                                                       ids[i], finalResources[ids[i]]))]
                   Validate(finalResources) ==
                     UpdateAll(finalResources,
                               validateMandatoryResourcesFast(cache, configDir,
                                                              mapping.object_id,
                                                              finalResources),
                               Ascending(DOMAIN finalResources))
                   Fallback(extractedResources) ==
                     Validate(IF mapping.object_id = 3336
                              THEN ensureObject3336Coordinates(extractedResources)
                              ELSE extractedResources)
               IN Fallback(ExtractResources(Ascending(DOMAIN resources), resources,
                                            value, uuid, EmptyMap))

processTemplateMapping(cache, configDir, signalKPath, value, mapping, entry) ==
  IF ~mapping.template_mapping \/ mapping.instance_mapping = <<>>
     \/ mapping.resources = <<>>
  THEN <<>>
  ELSE IF Len(signalKPath) < 3 \/ signalKPath[1] # "notifications" THEN <<>>
  ELSE LET notificationType == signalKPath[2]
           uuid == signalKPath[3]
           instance_mapping == mapping.instance_mapping[1]
           resources == mapping.resources[1]
       IN IF OwnOrInherited(instance_mapping, notificationType) = Undefined THEN <<>>
          ELSE LET instanceId == OwnOrInherited(instance_mapping, notificationType)
                   \* the loop over the validated resources
                   UpdateAll(finalResources, validation, ids) ==
                     IF validation = Throw THEN <<>>      \* caught and logged
                     ELSE IF ~validation.valid THEN <<>>  \* the whole update is skipped
                     ELSE [i \in 1..Len(ids) |->
                             Emit("template", entry,
                                  updateObjectResource(mapping.object_id, instanceId,
                                                       ids[i], finalResources[ids[i]]))]
                   Validate(finalResources) ==
                     UpdateAll(finalResources,
                               validateMandatoryResourcesFast(cache, configDir,
                                                              mapping.object_id,
                                                              finalResources),
                               Ascending(DOMAIN finalResources))
                   Fallback(extractedResources) ==
                     Validate(IF mapping.object_id = 3336
                              THEN ensureObject3336Coordinates(extractedResources)
                              ELSE extractedResources)
               IN Fallback(ExtractResources(Ascending(DOMAIN resources), resources,
                                            value, uuid, EmptyMap))

\* ------------------------------------ signalk-client.ts: the dispatch engine
\* A variant of the exact-match branch in which a failed validation of the
\* single resource skips the update.
processExactMapping_Blocking(cache, configDir, signalKPath, value, mapping, entry) ==
  IF ~IsComplete(mapping) THEN <<>>
  ELSE LET Send(convertedValue, validation) ==
             IF validation = Throw THEN <<>>
             ELSE IF ~validation.valid THEN <<>>
             ELSE <<Emit("exact", entry,
                         updateObjectResource(mapping.object_id, mapping.instance_id,
                                              mapping.resource_id, convertedValue))>>
           Update(convertedValue) ==
             IF convertedValue = Throw THEN <<>>
             ELSE Send(convertedValue,
                       validateMandatoryResourcesFast(
                         cache, configDir, mapping.object_id,
                         Put(EmptyMap, mapping.resource_id, convertedValue)))
       IN Update(IF mapping.conversion # ""
                 THEN applyConversion(value, mapping.conversion)
                 ELSE value)

\* The exact-match branch of processSignalKValue.
processExactMapping(cache, configDir, signalKPath, value, mapping, entry) ==
  IF ~IsComplete(mapping) THEN <<>>     \* data collection only
  ELSE LET \* an invalid result is logged as a warning, nothing else
           Send(convertedValue, validation) ==
             IF validation = Throw THEN <<>>       \* caught and logged
             ELSE <<Emit("exact", entry,
                         updateObjectResource(mapping.object_id, mapping.instance_id,
                                              mapping.resource_id, convertedValue))>>
           Update(convertedValue) ==
             IF convertedValue = Throw THEN <<>>   \* caught and logged
             ELSE Send(convertedValue,
                       validateMandatoryResourcesFast(
                         cache, configDir, mapping.object_id,
                         Put(EmptyMap, mapping.resource_id, convertedValue)))
       IN Update(IF mapping.conversion # ""
                 THEN applyConversion(value, mapping.conversion)
                 ELSE value)

\* A variant that keeps only the pair it is given in the accumulator.
processSignalKValue_Fresh(mappingConfig, cache, configDir, helperPathData, signalKPath, value) ==
  IF mappingConfig = <<>> THEN [helperPathData |-> helperPathData, calls |-> <<>>]
  ELSE LET mappings == mappingConfig[1].mappings
           stored == Put(EmptyMap, signalKPath, value)
           template == FindIndex([i \in 1..Len(mappings) |->
                                    /\ mappings[i].template_mapping
                                    /\ matchesTemplate(signalKPath,
                                                       mappings[i].signalkPath)])
           exact == FindIndex([i \in 1..Len(mappings) |->
                                 mappings[i].signalkPath = signalKPath])
       IN [helperPathData |-> stored,
           calls |-> processHelperPaths(mappings, stored) \o
                     (IF template # 0
                      THEN processTemplateMapping(cache, configDir, signalKPath, value,
                                                  mappings[template], template)
                      ELSE IF exact = 0 THEN <<>>
                      ELSE processExactMapping(cache, configDir, signalKPath, value,
                                               mappings[exact], exact))]

\* A variant of processSignalKValue that looks for the exact entry before
\* the template entry.
processSignalKValue_ExactFirst(mappingConfig, cache, configDir, helperPathData, signalKPath, value) ==
  IF mappingConfig = <<>> THEN [helperPathData |-> helperPathData, calls |-> <<>>]
  ELSE LET mappings == mappingConfig[1].mappings
           stored == Put(helperPathData, signalKPath, value)
           template == FindIndex([i \in 1..Len(mappings) |->
                                    /\ mappings[i].template_mapping
                                    /\ matchesTemplate(signalKPath,
                                                       mappings[i].signalkPath)])
           exact == FindIndex([i \in 1..Len(mappings) |->
                                 mappings[i].signalkPath = signalKPath])
       IN [helperPathData |-> stored,
           calls |-> processHelperPaths(mappings, stored) \o
                     (IF exact # 0
                      THEN processExactMapping(cache, configDir, signalKPath, value,
                                               mappings[exact], exact)
                      ELSE IF template = 0 THEN <<>>
                      ELSE processTemplateMapping(cache, configDir, signalKPath, value,
                                                  mappings[template], template))]

\* A variant of processSignalKValue that does not record the value of a
\* collection-only entry.
processSignalKValue_NoCollect(mappingConfig, cache, configDir, helperPathData, signalKPath, value) ==
  IF mappingConfig = <<>> THEN [helperPathData |-> helperPathData, calls |-> <<>>]
  ELSE LET mappings == mappingConfig[1].mappings
           template == FindIndex([i \in 1..Len(mappings) |->
                                    /\ mappings[i].template_mapping
                                    /\ matchesTemplate(signalKPath,
                                                       mappings[i].signalkPath)])
           exact == FindIndex([i \in 1..Len(mappings) |->
                                 mappings[i].signalkPath = signalKPath])
           stored == IF exact # 0 /\ ~IsComplete(mappings[exact]) THEN helperPathData
                     ELSE Put(helperPathData, signalKPath, value)
       IN [helperPathData |-> stored,
           calls |-> processHelperPaths(mappings, stored) \o
                     (IF template # 0
                      THEN processTemplateMapping(cache, configDir, signalKPath, value,
                                                  mappings[template], template)
                      ELSE IF exact = 0 THEN <<>>
                      ELSE processExactMapping(cache, configDir, signalKPath, value,
                                               mappings[exact], exact))]

\* A variant of processSignalKValue that runs the helpers only for a value
\* of one of their input paths.
processSignalKValue_InputsOnly(mappingConfig, cache, configDir, helperPathData, signalKPath, value) ==
  IF mappingConfig = <<>> THEN [helperPathData |-> helperPathData, calls |-> <<>>]
  ELSE LET mappings == mappingConfig[1].mappings
           stored == Put(helperPathData, signalKPath, value)
           template == FindIndex([i \in 1..Len(mappings) |->
                                    /\ mappings[i].template_mapping
                                    /\ matchesTemplate(signalKPath,
                                                       mappings[i].signalkPath)])
           exact == FindIndex([i \in 1..Len(mappings) |->
                                 mappings[i].signalkPath = signalKPath])
       IN [helperPathData |-> stored,
           calls |-> (IF signalKPath \in {SpeedPath, CoursePath}
                      THEN processHelperPaths(mappings, stored) ELSE <<>>) \o
                     (IF template # 0
                      THEN processTemplateMapping(cache, configDir, signalKPath, value,
                                                  mappings[template], template)
                      ELSE IF exact = 0 THEN <<>>
                      ELSE processExactMapping(cache, configDir, signalKPath, value,
                                               mappings[exact], exact))]

\* A variant of processSignalKValue that runs the helpers after the direct
\* command.
processSignalKValue_HelperLast(mappingConfig, cache, configDir, helperPathData, signalKPath, value) ==
  IF mappingConfig = <<>> THEN [helperPathData |-> helperPathData, calls |-> <<>>]
  ELSE LET mappings == mappingConfig[1].mappings
           stored == Put(helperPathData, signalKPath, value)
           template == FindIndex([i \in 1..Len(mappings) |->
                                    /\ mappings[i].template_mapping
                                    /\ matchesTemplate(signalKPath,
                                                       mappings[i].signalkPath)])
           exact == FindIndex([i \in 1..Len(mappings) |->
                                 mappings[i].signalkPath = signalKPath])
       IN [helperPathData |-> stored,
           calls |-> (IF template # 0
                      THEN processTemplateMapping(cache, configDir, signalKPath, value,
                                                  mappings[template], template)
                      ELSE IF exact = 0 THEN <<>>
                      ELSE processExactMapping(cache, configDir, signalKPath, value,
                                               mappings[exact], exact))
                     \o processHelperPaths(mappings, stored)]

\* processSignalKValue: the accumulator after the value and the calls of
\* updateObjectResource it made, in call order.  mappingConfig is <<>> while
\* no mapping configuration is loaded.
processSignalKValue(mappingConfig, cache, configDir, helperPathData, signalKPath, value) ==
  IF mappingConfig = <<>> THEN [helperPathData |-> helperPathData, calls |-> <<>>]
  ELSE LET mappings == mappingConfig[1].mappings
           stored == Put(helperPathData, signalKPath, value)
           template == FindIndex([i \in 1..Len(mappings) |->
                                    /\ mappings[i].template_mapping
                                    /\ matchesTemplate(signalKPath,
                                                       mappings[i].signalkPath)])
           exact == FindIndex([i \in 1..Len(mappings) |->
                                 mappings[i].signalkPath = signalKPath])
       IN [helperPathData |-> stored,
           calls |-> processHelperPaths(mappings, stored) \o
                     (IF template # 0
                      THEN processTemplateMapping(cache, configDir, signalKPath, value,
                                                  mappings[template], template)
                      ELSE IF exact = 0 THEN <<>>
                      ELSE processExactMapping(cache, configDir, signalKPath, value,
                                               mappings[exact], exact))]

\* ------------------------------- signalk-client.ts: the inbound message
\* An inbound payload is Garbage (JSON.parse raises) or a parsed delta whose
\* updates field is <<>> (absent, or no array) or <<list>>; an update's values
\* field likewise.  An entry of a list that is null is Null.
Garbage == [k |-> "garbage"]
Delta(updates) == [k |-> "delta", updates |-> <<updates>>]
NoUpdates == [k |-> "delta", updates |-> <<>>]
Update(values) == [values |-> <<values>>]
NoValues == [values |-> <<>>]
PathValue(path, value) == [path |-> path, value |-> value]

\* The value entries handleSignalKDelta visits, in visiting order: the two
\* nested forEach loops.  Reading .values or .path of a null entry raises a
\* TypeError that leaves both loops; Poison marks the place.
Poison == [k |-> "poison"]

\* A variant of Visited that walks the values of each update from the last
\* to the first.
RECURSIVE Visited_Backwards(_)
Visited_Backwards(updates) ==
  IF updates = <<>> THEN <<>>
  ELSE LET update == Head(updates)
       IN IF update = Null THEN <<Poison>>
          ELSE IF update.values = <<>> THEN Visited_Backwards(Tail(updates))
          ELSE LET values == [i \in 1..Len(update.values[1]) |->
                                update.values[1][Len(update.values[1]) + 1 - i]]
                   bad == FindIndex([i \in 1..Len(values) |-> values[i] = Null])
               IN IF bad # 0 THEN SubSeq(values, 1, bad - 1) \o <<Poison>>
                  ELSE values \o Visited_Backwards(Tail(updates))

RECURSIVE Visited(_)
Visited(updates) ==
  IF updates = <<>> THEN <<>>
  ELSE LET update == Head(updates)
       IN IF update = Null THEN <<Poison>>
          ELSE IF update.values = <<>> THEN Visited(Tail(updates))
          ELSE LET values == update.values[1]
                   bad == FindIndex([i \in 1..Len(values) |-> values[i] = Null])
               IN IF bad # 0 THEN SubSeq(values, 1, bad - 1) \o <<Poison>>
                  ELSE values \o Visited(Tail(updates))

\* The entries in front of the first raise.
Processed(entries) ==
  LET stop == FindIndex([i \in 1..Len(entries) |-> entries[i] = Poison])
  IN IF stop = 0 THEN entries ELSE SubSeq(entries, 1, stop - 1)

\* processSignalKValue over the entries in order: the accumulator at the end
\* and every call made, each with the position of the entry that caused it.
RECURSIVE Dispatch(_, _, _, _, _, _, _)
Dispatch(mappingConfig, cache, configDir, helperPathData, entries, k, calls) ==
  IF k > Len(entries) THEN [helperPathData |-> helperPathData, calls |-> calls]
  ELSE LET Rest(r) ==
             Dispatch(mappingConfig, cache, configDir, r.helperPathData, entries, k + 1,
                      calls \o [j \in 1..Len(r.calls) |->
                                  [src |-> k, via |-> r.calls[j].via,
                                   entry |-> r.calls[j].entry, cmd |-> r.calls[j].cmd]])
       IN Rest(processSignalKValue(mappingConfig, cache, configDir, helperPathData,
                                   entries[k].path, entries[k].value))

\* A variant of the handler that empties the accumulator when it discards a
\* message.
handleSignalKDelta_Reset(mappingConfig, cache, configDir, helperPathData, message) ==
  IF message = Garbage \/ message.updates = <<>>
  THEN [entries |-> <<>>, helperPathData |-> EmptyMap, calls |-> <<>>]
  ELSE LET entries == Processed(Visited(message.updates[1]))
           Result(r) ==
             [entries |-> IF mappingConfig = <<>> THEN <<>> ELSE entries,
              helperPathData |-> r.helperPathData, calls |-> r.calls]
       IN Result(Dispatch(mappingConfig, cache, configDir, helperPathData,
                          entries, 1, <<>>))

\* The message handler: JSON.parse, then handleSignalKDelta; whatever either
\* raises is caught and logged.  The result carries the entries that were
\* processed, the accumulator and the calls of updateObjectResource.
handleSignalKDelta(mappingConfig, cache, configDir, helperPathData, message) ==
  IF message = Garbage \/ message.updates = <<>>
  THEN [entries |-> <<>>, helperPathData |-> helperPathData, calls |-> <<>>]
  ELSE LET entries == Processed(Visited(message.updates[1]))
           Result(r) ==
             [entries |-> IF mappingConfig = <<>> THEN <<>> ELSE entries,
              helperPathData |-> r.helperPathData, calls |-> r.calls]
       IN Result(Dispatch(mappingConfig, cache, configDir, helperPathData,
                          entries, 1, <<>>))

\* --------------------------- signalk-client.ts: the subscribe message
\* A Set in insertion order.
SetAdd(seq, x) ==
  IF \E i \in 1..Len(seq) : seq[i] = x THEN seq ELSE Append(seq, x)

RECURSIVE SetAddAll(_, _)
SetAddAll(seq, xs) ==
  IF xs = <<>> THEN seq ELSE SetAddAll(SetAdd(seq, Head(xs)), Tail(xs))

\* A variant of pathsToSubscribe that collects the paths in an array
\* instead of a Set.
pathsToSubscribe_Array(mappings) ==
  LET regular == SelectSeq([i \in 1..Len(mappings) |-> mappings[i].signalkPath],
                           LAMBDA path : ~IsHelperPath(path))
      helperMappings == SelectSeq(mappings, LAMBDA m : IsHelperPath(m.signalkPath))
      needed == Concat([i \in 1..Len(helperMappings) |->
                          IF HelperType(helperMappings[i].signalkPath)
                               = <<"3gpp_ts_23032_velocity">>
                          THEN <<SpeedPath, CoursePath>>
                          ELSE <<>>])
  IN regular \o needed

\* The paths to subscribe to, as Array.from(pathsToSubscribe) lists them.
pathsToSubscribe(mappings) ==
  LET regular == SelectSeq([i \in 1..Len(mappings) |-> mappings[i].signalkPath],
                           LAMBDA path : ~IsHelperPath(path))
      helperMappings == SelectSeq(mappings, LAMBDA m : IsHelperPath(m.signalkPath))
      needed == Concat([i \in 1..Len(helperMappings) |->
                          IF HelperType(helperMappings[i].signalkPath)
                               = <<"3gpp_ts_23032_velocity">>
                          THEN <<SpeedPath, CoursePath>>
                          ELSE <<>>])
  IN SetAddAll(SetAddAll(<<>>, regular), needed)

\* One element of the subscribe list.
SubscribeItem(path, mappings, defaults) ==
  [path |-> path, period |-> defaults.period, format |-> defaults.format,
   policy |-> defaults.policy, minPeriod |-> defaults.minPeriod]

\* The subscription request subscribeToSignalKPaths sends.
SubscriptionRequest(mappings, defaults) ==
  LET paths == pathsToSubscribe(mappings)
  IN [context |-> "vessels.self",
      subscribe |-> [i \in 1..Len(paths) |->
                       SubscribeItem(paths[i], mappings, defaults)]]

\* ---------------------------------------------------- configuration inputs
\* The schema files of the config directory.
DefaultConfigDir ==
  (3336 :> [name |-> "Location",
            items |-> <<Item(5517, "Velocity", "Optional"),
                        Item(5750, "Application Type", "Optional"),
                        Item(6051, "Numeric Latitude", "Mandatory"),
                        Item(6052, "Numeric Longitude", "Mandatory")>>])
  @@ (3303 :> [name |-> "Temperature",
               items |-> <<Item(5700, "Sensor Value", "Mandatory"),
                           Item(5701, "Sensor Units", "Optional")>>])
  @@ (3 :> [name |-> "Device",
            items |-> <<Item(11, "Error Code", "Mandatory"),
                        Item(16, "Supported Binding", "Mandatory")>>])

\* The subscription defaults of the system configuration.
DefaultSubscription ==
  [period |-> 1000, format |-> "delta", policy |-> "instant", minPeriod |-> 200]

SystemConfig(maxAttempts) ==
  [maxReconnectAttempts |-> maxAttempts, subscription |-> DefaultSubscription]

\* Mapping entries of the model's mapping configurations.
TemperaturePath == <<"environment", "outside", "temperature">>
MobPath == <<"notifications", "mob", "u1">>
FirePath == <<"notifications", "fire", "u2">>

SpeedCollect == Mapping(SpeedPath, Undefined, Undefined, Undefined)
VelocityHelper == Mapping(VelocityHelperPath, 3336, 0, 5517)
TemperatureExact ==
  [Mapping(TemperaturePath, 3303, 0, 5700) EXCEPT
     !.conversion = "kelvin_to_celsius", !.period = 5000, !.policy = "fixed"]
CourseExact ==
  [Mapping(CoursePath, 3336, 0, 5705) EXCEPT !.conversion = "foo", !.minPeriod = 50]
NotificationTemplate ==
  [Mapping(NotificationsTemplate, 3336, Undefined, Undefined) EXCEPT
     !.template_mapping = TRUE,
     !.instance_mapping = <<[mob |-> 0, sinking |-> 1]>>,
     !.resources = <<(5750 :> <<"uuid">>)
                     @@ (6051 :> <<"position", "latitude">>)
                     @@ (6052 :> <<"position", "longitude">>)>>]
DeviceTemplate ==
  [Mapping(NotificationsTemplate, 3, Undefined, Undefined) EXCEPT
     !.template_mapping = TRUE,
     !.instance_mapping = <<[mob |-> 0, fire |-> 2]>>,
     !.resources = <<(11 :> <<"code">>) @@ (16 :> <<"uuid">>)>>]
MobExact == Mapping(MobPath, 3300, 1, 5700)
\* A template entry for an object that has no schema file.
SensorTemplate ==
  [Mapping(NotificationsTemplate, 3300, Undefined, Undefined) EXCEPT
     !.template_mapping = TRUE,
     !.instance_mapping = <<[fire |-> 2]>>,
     !.resources = <<(5700 :> <<"code">>) @@ (5750 :> <<"message">>)>>]

EntryPool ==
  {SpeedCollect, VelocityHelper, TemperatureExact, CourseExact,
   NotificationTemplate, DeviceTemplate, SensorTemplate, MobExact}

\* Longest mapping list of the model's mapping configurations.
MaxMappings == 2

RECURSIVE SeqsUpTo(_, _)
SeqsUpTo(S, n) ==
  IF n = 0 THEN {<<>>}
  ELSE LET shorter == SeqsUpTo(S, n - 1)
       IN shorter \cup {Append(q, x) : q \in shorter, x \in S}

MappingTables == SeqsUpTo(EntryPool, MaxMappings)

\* The mapping configuration of the connection lifecycle runs.
LifecycleMappings == <<SpeedCollect, VelocityHelper>>

\* Inbound messages.
Position == Obj([latitude |-> Num(54, 1, 0), longitude |-> Num(10, 1, 0)])
Alarm == Obj([message |-> Str("MOB"), position |-> Position, code |-> Int2Num(7)])
AlarmNoPosition == Obj([message |-> Str("MOB"), position |-> Null])

SpeedDelta == Delta(<<Update(<<PathValue(SpeedPath, Int2Num(10))>>)>>)

LifecycleMessages == {SpeedDelta, Garbage}

DataMessages ==
  {SpeedDelta,
   Delta(<<Update(<<PathValue(CoursePath, Num(1, 2, 1)),
                    PathValue(TemperaturePath, Num(3003, 10, 0))>>)>>),
   Delta(<<Update(<<PathValue(MobPath, Alarm)>>),
           Update(<<PathValue(SpeedPath, Null)>>)>>),
   Delta(<<Update(<<PathValue(MobPath, AlarmNoPosition)>>),
           Update(<<PathValue(SpeedPath, Num(5, 4, 0))>>)>>),
   Delta(<<Update(<<PathValue(FirePath, Alarm),
                    PathValue(TemperaturePath, Int2Num(280))>>),
           NoValues,
           Update(<<PathValue(MobPath, Null)>>)>>),
   NoUpdates}

\* ------------------------------------------------------------------- state
VARIABLES
  configDir,                \* the schema files on disk
  mandatoryResourcesCache,  \* mandatory-resources.ts: the in-memory cache
  snapshot,                 \* the file mandatory-resources.json
  served,                   \* <<>> or <<the last validation request answered>>
  velocityData,             \* the argument of encode3GPPVelocity
  gadVelocity,              \* <<>> or <<the structure it returned>>
  packed,                   \* <<>> or <<the last call of encodeGADVelocityBinary>>
  converted,                \* history: the calls of applyConversion
  ensured,                  \* history: the calls of ensureObject3336Coordinates
  phase,                    \* "down" (no process), "constructed", "running"
                            \* or "failed" (start())
  systemConfig,             \* <<>> or <<the system configuration>>
  mappingConfig,            \* <<>> or <<[mappings |-> the mapping entries]>>
  maxReconnectAttempts,
  reconnectAttempts,
  socks,                    \* every WebSocket object created, in creation order
  ws,                       \* this.ws: a position in socks, 0 for null
  reconnectTimers,          \* pending setTimeout(connectWebSocket, reconnectDelay)
  subscribeTimers,          \* pending setTimeout(subscribeToSignalKPaths, 100)
  subscription,             \* <<>> or <<the last subscription request sent>>
  helperPathData,
  client,                   \* LwM2MController.client is set
  ready,                    \* LwM2MController.ready
  killTimers,               \* pending setTimeout(kill, 2000) of controller.stop()
  sink,                     \* the commands written to the client's stdin
  stopped,                  \* history: stop() has been called
  exhausted,                \* history: 'Max reconnection attempts reached' logged
  arrived,                  \* history: the inbound messages, in arrival order
  dispatched,               \* history: the entries recorded, in recording order
  issued                    \* history: the calls of updateObjectResource

cacheVars == <<configDir, mandatoryResourcesCache, snapshot, served>>
codecVars == <<velocityData, gadVelocity, packed, converted, ensured>>
envVars == <<cacheVars, codecVars>>
configVars == <<phase, systemConfig, mappingConfig, maxReconnectAttempts>>
connVars == <<reconnectAttempts, socks, ws, reconnectTimers, subscribeTimers,
              subscription, exhausted>>
controllerVars == <<client, ready, killTimers>>
dataVars == <<helperPathData, sink, arrived, dispatched, issued>>
vars == <<envVars, configVars, connVars, controllerVars, dataVars, stopped>>

\* private maxReconnectAttempts = 10
DefaultMaxReconnectAttempts == 10

\* A WebSocket object: its state ("connecting", "open", "closing" after
\* close() on an open socket, "aborting" after close() on a connecting one,
\* "errored" once 'error' was emitted and 'close' is still to come, "closed"),
\* the control messages sent on it and whether it ever opened.
NewSocket == [st |-> "connecting", sent |-> <<>>, everOpen |-> FALSE]

\* readyState === WebSocket.OPEN
IsOpen(sock) == sock.st = "open"

\* ------------------------------------------ signalk-client.ts: connection
\* connectWebSocket: a new WebSocket replaces this.ws; the one it replaces is
\* neither closed nor detached from its handlers.
connectWebSocket ==
  /\ socks' = Append(socks, NewSocket)
  /\ ws' = Len(socks) + 1

\* scheduleReconnect, called by the 'close' and by the 'error' handler.
scheduleReconnect ==
  IF reconnectAttempts < maxReconnectAttempts
  THEN /\ reconnectAttempts' = reconnectAttempts + 1
       /\ reconnectTimers' = reconnectTimers + 1
       /\ UNCHANGED exhausted
  ELSE /\ exhausted' = TRUE
       /\ UNCHANGED <<reconnectAttempts, reconnectTimers>>

\* unsubscribeAll sends on this.ws, whichever socket's 'open' called it.
CanSend(ss) == ws # 0 /\ IsOpen(ss[ws])

unsubscribeAll(ss) ==
  IF CanSend(ss) THEN [ss EXCEPT ![ws].sent = Append(@, "unsubscribe")] ELSE ss

\* A variant of sendCommand that writes whether or not the client is ready.
Written_Always(cmds) == sink \o cmds

\* sendCommand: written only while the client exists and is ready.
Written(cmds) == IF client /\ ready THEN sink \o cmds ELSE sink

\* ---------------------------------------------------------------- actions
\* A variant of start() that starts the controller before the probe.
Start_ControllerFirst(failAt, maxAttempts, mappings) ==
  /\ phase = "constructed"
  /\ phase' = IF failAt = "none" THEN "running" ELSE "failed"
  /\ systemConfig' = IF failAt = "systemConfig" THEN <<>>
                     ELSE <<SystemConfig(maxAttempts)>>
  /\ maxReconnectAttempts' = IF failAt = "systemConfig" THEN maxReconnectAttempts
                             ELSE maxAttempts
  /\ mappingConfig' = IF failAt \in {"systemConfig", "mappingConfig"} THEN <<>>
                      ELSE <<[mappings |-> mappings]>>
  /\ IF failAt = "none"
     THEN client' = TRUE /\ connectWebSocket
     ELSE IF failAt = "probe"
     THEN client' = TRUE /\ UNCHANGED <<socks, ws>>
     ELSE UNCHANGED <<client, socks, ws>>
  /\ UNCHANGED <<envVars, reconnectAttempts, reconnectTimers, subscribeTimers,
                 subscription, exhausted, ready, killTimers, dataVars, stopped>>

\* start(): the system configuration, the mapping configuration and the
\* reachability probe, each of which may fail and end start(); then the
\* controller and the first connection.
Start(failAt, maxAttempts, mappings) ==
  /\ phase = "constructed"
  /\ phase' = IF failAt = "none" THEN "running" ELSE "failed"
  /\ systemConfig' = IF failAt = "systemConfig" THEN <<>>
                     ELSE <<SystemConfig(maxAttempts)>>
  /\ maxReconnectAttempts' = IF failAt = "systemConfig" THEN maxReconnectAttempts
                             ELSE maxAttempts
  /\ mappingConfig' = IF failAt \in {"systemConfig", "mappingConfig"} THEN <<>>
                      ELSE <<[mappings |-> mappings]>>
  /\ IF failAt = "none"
     THEN client' = TRUE /\ connectWebSocket
     ELSE UNCHANGED <<client, socks, ws>>
  /\ UNCHANGED <<envVars, reconnectAttempts, reconnectTimers, subscribeTimers,
                 subscription, exhausted, ready, killTimers, dataVars, stopped>>

\* ws.on('open')
SockOpen(i) ==
  /\ socks[i].st = "connecting"
  /\ reconnectAttempts' = 0
  /\ LET opened == [socks EXCEPT ![i].st = "open", ![i].everOpen = TRUE]
     IN /\ socks' = unsubscribeAll(opened)
        /\ subscribeTimers' = IF CanSend(opened) THEN subscribeTimers + 1
                              ELSE subscribeTimers
  /\ UNCHANGED <<envVars, configVars, ws, reconnectTimers, subscription, exhausted,
                 controllerVars, dataVars, stopped>>

\* ws.on('error'): a failed handshake or a transport error; the socket's
\* 'close' follows.
SockError(i) ==
  /\ socks[i].st \in {"connecting", "open", "aborting"}
  /\ socks' = [socks EXCEPT ![i].st = "errored"]
  /\ scheduleReconnect
  /\ UNCHANGED <<envVars, configVars, ws, subscribeTimers, subscription,
                 controllerVars, dataVars, stopped>>

\* A variant of the 'close' handler that empties the accumulator.
SockClose_Forget(i) ==
  /\ socks[i].st \in {"open", "closing", "errored"}
  /\ socks' = [socks EXCEPT ![i].st = "closed"]
  /\ scheduleReconnect
  /\ helperPathData' = EmptyMap
  /\ UNCHANGED <<envVars, configVars, ws, subscribeTimers, subscription,
                 controllerVars, sink, arrived, dispatched, issued, stopped>>

\* ws.on('close'): the peer closed, the closing handshake ended, or the
\* socket was torn down after an error.
SockClose(i) ==
  /\ socks[i].st \in {"open", "closing", "errored"}
  /\ socks' = [socks EXCEPT ![i].st = "closed"]
  /\ scheduleReconnect
  /\ UNCHANGED <<envVars, configVars, ws, subscribeTimers, subscription,
                 controllerVars, dataVars, stopped>>

\* The reconnect timer fires: connectWebSocket.
ReconnectTimer(maxSocks) ==
  /\ reconnectTimers > 0
  /\ Len(socks) < maxSocks
  /\ reconnectTimers' = reconnectTimers - 1
  /\ connectWebSocket
  /\ UNCHANGED <<envVars, configVars, reconnectAttempts, subscribeTimers,
                 subscription, exhausted, controllerVars, dataVars, stopped>>

\* The 100 ms timer of unsubscribeAll fires: subscribeToSignalKPaths.
SubscribeTimer ==
  /\ subscribeTimers > 0
  /\ subscribeTimers' = subscribeTimers - 1
  /\ IF CanSend(socks) /\ mappingConfig # <<>> /\ systemConfig # <<>>
     THEN /\ socks' = [socks EXCEPT ![ws].sent = Append(@, "subscribe")]
          /\ subscription' = <<SubscriptionRequest(mappingConfig[1].mappings,
                                                   systemConfig[1].subscription)>>
     ELSE UNCHANGED <<socks, subscription>>
  /\ UNCHANGED <<envVars, configVars, reconnectAttempts, ws, reconnectTimers,
                 exhausted, controllerVars, dataVars, stopped>>

\* ws.on('message') of socket i: a socket delivers what it receives while it
\* is open and while its closing handshake is running.
Message(i, message) ==
  /\ socks[i].st \in {"open", "closing"}
  /\ Len(arrived) < MaxMsgs
  /\ \E r \in {handleSignalKDelta(mappingConfig, mandatoryResourcesCache, configDir,
                                    helperPathData, message)} :
     LET base == Len(dispatched)
     IN /\ helperPathData' = r.helperPathData
        /\ arrived' = Append(arrived, [sock |-> i, message |-> message,
                                       afterStop |-> stopped])
        /\ dispatched' = dispatched \o
             [k \in 1..Len(r.entries) |->
                [path |-> r.entries[k].path, value |-> r.entries[k].value,
                 message |-> Len(arrived) + 1, afterStop |-> stopped]]
        /\ issued' = issued \o
             [j \in 1..Len(r.calls) |->
                [src |-> base + r.calls[j].src, via |-> r.calls[j].via,
                 entry |-> r.calls[j].entry, cmd |-> r.calls[j].cmd,
                 written |-> client /\ ready, afterStop |-> stopped]]
        /\ sink' = Written([j \in 1..Len(r.calls) |-> r.calls[j].cmd])
  /\ UNCHANGED <<envVars, configVars, connVars, controllerVars, stopped>>

\* stop(): close this.ws and forget it, then controller.stop(), which sends
\* 'quit' and arms the kill timer while the client exists.
Stop ==
  /\ phase = "running"
  /\ ~stopped
  /\ stopped' = TRUE
  /\ socks' = IF ws = 0 THEN socks
              ELSE [socks EXCEPT ![ws].st =
                      CASE @ = "open" -> "closing"
                        [] @ = "connecting" -> "aborting"
                        [] OTHER -> @]
  /\ ws' = 0
  /\ sink' = IF client THEN Written(<<[op |-> "quit"]>>) ELSE sink
  /\ killTimers' = IF client THEN killTimers + 1 ELSE killTimers
  /\ UNCHANGED <<envVars, configVars, reconnectAttempts, reconnectTimers,
                 subscribeTimers, subscription, exhausted, client, ready,
                 helperPathData, arrived, dispatched, issued>>

\* client.stdout 'data' carrying the prompt: the controller becomes ready.
ClientOutput ==
  /\ client
  /\ ~ready
  /\ ready' = TRUE
  /\ UNCHANGED <<envVars, configVars, connVars, client, killTimers, dataVars,
                 stopped>>

\* client 'close': the process has ended.
ClientClose ==
  /\ client
  /\ client' = FALSE
  /\ ready' = FALSE
  /\ UNCHANGED <<envVars, configVars, connVars, killTimers, dataVars, stopped>>

\* The kill timer of controller.stop() fires: SIGTERM if the client exists.
KillTimer ==
  /\ killTimers > 0
  /\ killTimers' = killTimers - 1
  /\ UNCHANGED <<envVars, configVars, connVars, client, ready, dataVars, stopped>>

\* ---------------------------------------------------------- specifications
\* The state after construction: the cache is initialised, nothing is loaded.
Init ==
  /\ configDir = DefaultConfigDir
  /\ mandatoryResourcesCache = <<generateMandatoryResourcesCache(DefaultConfigDir)>>
  /\ snapshot = Json(generateMandatoryResourcesCache(DefaultConfigDir))
  /\ served = <<>>
  /\ velocityData = NoVelocityData
  /\ gadVelocity = <<>>
  /\ packed = <<>>
  /\ converted = <<>>
  /\ ensured = <<>>
  /\ phase = "constructed"
  /\ systemConfig = <<>>
  /\ mappingConfig = <<>>
  /\ maxReconnectAttempts = DefaultMaxReconnectAttempts
  /\ reconnectAttempts = 0
  /\ socks = <<>>
  /\ ws = 0
  /\ reconnectTimers = 0
  /\ subscribeTimers = 0
  /\ subscription = <<>>
  /\ helperPathData = EmptyMap
  /\ client = FALSE
  /\ ready = FALSE
  /\ killTimers = 0
  /\ sink = <<>>
  /\ stopped = FALSE
  /\ exhausted = FALSE
  /\ arrived = <<>>
  /\ dispatched = <<>>
  /\ issued = <<>>

\* The connection lifecycle of one bridge, from construction to exhaustion or
\* stop.
Next ==
  \/ \E failAt \in {"systemConfig", "mappingConfig", "probe", "none"},
        maxAttempts \in 1..MaxAttempts :
       Start(failAt, maxAttempts, LifecycleMappings)
  \/ \E i \in 1..Len(socks) : SockOpen(i)
  \/ \E i \in 1..Len(socks) : SockError(i)
  \/ \E i \in 1..Len(socks) : SockClose(i)
  \/ ReconnectTimer(MaxSocks)
  \/ SubscribeTimer
  \/ Stop

Spec == Init /\ [][Next]_vars

\* The same runs under the scheduling of the timers: a timer that is pending
\* fires.
SpecLive ==
  /\ Spec
  /\ WF_vars(ReconnectTimer(MaxSocks))
  /\ WF_vars(SubscribeTimer)

\* A started bridge: start() has loaded both configurations, spawned the
\* client and begun the first connection. Inbound messages, the client
\* process, connection loss and stop() interleave.
InitBridge ==
  /\ configDir = DefaultConfigDir
  /\ mandatoryResourcesCache = <<generateMandatoryResourcesCache(DefaultConfigDir)>>
  /\ snapshot = Json(generateMandatoryResourcesCache(DefaultConfigDir))
  /\ served = <<>>
  /\ velocityData = NoVelocityData
  /\ gadVelocity = <<>>
  /\ packed = <<>>
  /\ converted = <<>>
  /\ ensured = <<>>
  /\ phase = "running"
  /\ systemConfig = <<SystemConfig(MaxAttempts)>>
  /\ mappingConfig = <<[mappings |-> LifecycleMappings]>>
  /\ maxReconnectAttempts = MaxAttempts
  /\ reconnectAttempts = 0
  /\ socks = <<NewSocket>>
  /\ ws = 1
  /\ reconnectTimers = 0
  /\ subscribeTimers = 0
  /\ subscription = <<>>
  /\ helperPathData = EmptyMap
  /\ client = TRUE
  /\ ready = FALSE
  /\ killTimers = 0
  /\ sink = <<>>
  /\ stopped = FALSE
  /\ exhausted = FALSE
  /\ arrived = <<>>
  /\ dispatched = <<>>
  /\ issued = <<>>

NextBridge ==
  \/ \E i \in 1..Len(socks) : SockOpen(i)
  \/ \E i \in 1..Len(socks) : SockError(i)
  \/ \E i \in 1..Len(socks) : SockClose(i)
  \/ ReconnectTimer(MaxBridgeSocks)
  \/ SubscribeTimer
  \/ \E i \in 1..Len(socks), message \in LifecycleMessages : Message(i, message)
  \/ Stop
  \/ ClientOutput
  \/ ClientClose
  \/ KillTimer

SpecBridge == InitBridge /\ [][NextBridge]_vars

\* The first connection of a started bridge: what arrives on it, its loss,
\* the client process and stop() interleave; no reconnect timer fires.
NextSink ==
  \/ \E i \in 1..Len(socks) : SockOpen(i)
  \/ \E i \in 1..Len(socks) : SockError(i)
  \/ \E i \in 1..Len(socks) : SockClose(i)
  \/ SubscribeTimer
  \/ \E i \in 1..Len(socks), message \in LifecycleMessages : Message(i, message)
  \/ Stop
  \/ ClientOutput
  \/ ClientClose
  \/ KillTimer

SpecSink == InitBridge /\ [][NextSink]_vars

\* A speed and a course, each in a message of its own.
ReconnectMessages ==
  {SpeedDelta, Delta(<<Update(<<PathValue(CoursePath, Num(1, 2, 1))>>)>>)}

\* A started bridge whose connection is lost and made again while values
\* arrive.
NextReconnect ==
  \/ \E i \in 1..Len(socks) : SockOpen(i)
  \/ \E i \in 1..Len(socks) : SockError(i)
  \/ \E i \in 1..Len(socks) : SockClose(i)
  \/ ReconnectTimer(MaxBridgeSocks)
  \/ SubscribeTimer
  \/ \E i \in 1..Len(socks), message \in ReconnectMessages : Message(i, message)

SpecReconnect == InitBridge /\ [][NextReconnect]_vars

\* The data path of a running bridge: the first connection has opened and
\* sent its unsubscribe, the client is ready, and the mapping configuration
\* is any of the model's.
InitData ==
  /\ configDir = DefaultConfigDir
  /\ mandatoryResourcesCache = <<generateMandatoryResourcesCache(DefaultConfigDir)>>
  /\ snapshot = Json(generateMandatoryResourcesCache(DefaultConfigDir))
  /\ served = <<>>
  /\ velocityData = NoVelocityData
  /\ gadVelocity = <<>>
  /\ packed = <<>>
  /\ converted = <<>>
  /\ ensured = <<>>
  /\ phase = "running"
  /\ systemConfig = <<SystemConfig(MaxAttempts)>>
  /\ mappingConfig \in {<<[mappings |-> t]>> : t \in MappingTables}
  /\ maxReconnectAttempts = MaxAttempts
  /\ reconnectAttempts = 0
  /\ socks = <<[st |-> "open", sent |-> <<"unsubscribe">>, everOpen |-> TRUE]>>
  /\ ws = 1
  /\ reconnectTimers = 0
  /\ subscribeTimers = 1
  /\ subscription = <<>>
  /\ helperPathData = EmptyMap
  /\ client = TRUE
  /\ ready = TRUE
  /\ killTimers = 0
  /\ sink = <<>>
  /\ stopped = FALSE
  /\ exhausted = FALSE
  /\ arrived = <<>>
  /\ dispatched = <<>>
  /\ issued = <<>>

NextData ==
  \/ SubscribeTimer
  \/ \E message \in DataMessages : Message(1, message)

SpecData == InitData /\ [][NextData]_vars

\* The data path of a running bridge whose mapping configuration holds
\* template entries only.
InitTemplates ==
  /\ InitData
  /\ \A n \in 1..Len(mappingConfig[1].mappings) :
       mappingConfig[1].mappings[n].template_mapping

SpecTemplates == InitTemplates /\ [][NextData]_vars

\* --------------------------------------- the open connection, bad payloads
\* Two well-formed messages, a payload that does not parse, a delta without an
\* updates list, a delta whose first value entry is null, a delta whose
\* first value entry has no path, a notification without an identifier
\* followed by a complete one, and a notification whose type is a name of
\* Object.prototype.
FaultMessages ==
  {SpeedDelta, Garbage, NoUpdates,
   Delta(<<Update(<<PathValue(CoursePath, Num(1, 2, 1)),
                    PathValue(TemperaturePath, Num(3003, 10, 0))>>)>>),
   Delta(<<Update(<<Null, PathValue(CoursePath, Num(1, 2, 1))>>)>>),
   Delta(<<Update(<<PathValue(<<>>, Int2Num(5)),
                    PathValue(SpeedPath, Num(5, 4, 0))>>)>>),
   Delta(<<Update(<<PathValue(<<"notifications", "mob">>, Alarm),
                    PathValue(MobPath, Alarm)>>)>>),
   Delta(<<Update(<<PathValue(<<"notifications", "constructor", "u3">>, Alarm)>>)>>)}

NextFaults ==
  \/ SubscribeTimer
  \/ \E message \in FaultMessages : Message(1, message)

SpecFaults == InitData /\ [][NextFaults]_vars

\* ------------------------------------- the mandatory resources cache at startup
\* Schema files that may be added to the config directory.
NewSchemas ==
  (3300 :> [name |-> "Generic Sensor",
            items |-> <<Item(5700, "Sensor Value", "Mandatory"),
                        Item(5701, "Sensor Units", "Optional")>>])
  @@ (3347 :> [name |-> "Push button",
               items |-> <<Item(5500, "Digital Input State", "Mandatory")>>])

\* The config directories of the model: the default one with any of the new
\* schema files.
ConfigDirs ==
  {[id \in DOMAIN DefaultConfigDir \cup S |->
      IF id \in S THEN NewSchemas[id] ELSE DefaultConfigDir[id]] :
     S \in SUBSET DOMAIN NewSchemas}

\* The validation requests of the model: an object id, known to the schemas
\* or not, and a resource map whose values may be undefined.
RequestObjectIds == DOMAIN DefaultConfigDir \cup DOMAIN NewSchemas \cup {9999}
RequestResources ==
  UNION {[S -> {Num(0, 1, 0), Undef}] : S \in SUBSET {5700, 6051, 6052}}

\* new SignalKSubscriber(): initializeMandatoryResourcesCache() sets the
\* in-memory cache to what loadMandatoryResourcesCache() returns; a generated
\* cache is written to the snapshot file unless the write fails.
Construct(writable) ==
  /\ phase = "down"
  /\ \E r \in {loadMandatoryResourcesCache(snapshot, configDir)} :
       /\ mandatoryResourcesCache' = <<r.cache>>
       /\ snapshot' = IF r.generated /\ writable THEN Json(r.cache) ELSE snapshot
  /\ phase' = "constructed"
  /\ UNCHANGED <<configDir, served, codecVars, systemConfig, mappingConfig,
                 maxReconnectAttempts, connVars, controllerVars, dataVars, stopped>>

\* The process ends: the module variable is null again in the next process.
Exit ==
  /\ phase # "down"
  /\ phase' = "down"
  /\ mandatoryResourcesCache' = <<>>
  /\ UNCHANGED <<configDir, snapshot, served, codecVars, systemConfig, mappingConfig,
                 maxReconnectAttempts, connVars, controllerVars, dataVars, stopped>>

\* A schema file lwm2m-object-<objectId>.xml is added to the config directory.
AddSchema(objectId) ==
  /\ objectId \in DOMAIN NewSchemas \ DOMAIN configDir
  /\ configDir' = [id \in DOMAIN configDir \cup {objectId} |->
                     IF id = objectId THEN NewSchemas[id] ELSE configDir[id]]
  /\ UNCHANGED <<mandatoryResourcesCache, snapshot, served, codecVars, configVars,
                 connVars, controllerVars, dataVars, stopped>>

\* The snapshot file is deleted, made unreadable or cut short.
SnapshotLost(file) ==
  /\ snapshot # file
  /\ snapshot' = file
  /\ UNCHANGED <<configDir, mandatoryResourcesCache, served, codecVars, configVars,
                 connVars, controllerVars, dataVars, stopped>>

\* The dispatch engine of a constructed subscriber asks for a validation.
Validate(objectId, providedResources) ==
  /\ phase # "down"
  /\ \E r \in {validateMandatoryResourcesFast(mandatoryResourcesCache, configDir,
                                                objectId, providedResources)} :
       served' = <<[cache |-> mandatoryResourcesCache, objectId |-> objectId,
                    providedResources |-> providedResources, result |-> r]>>
  /\ UNCHANGED <<configDir, mandatoryResourcesCache, snapshot, codecVars, configVars,
                 connVars, controllerVars, dataVars, stopped>>

\* The cache across process starts: before the first start no snapshot exists.
InitCache ==
  /\ configDir = DefaultConfigDir
  /\ mandatoryResourcesCache = <<>>
  /\ snapshot = Missing
  /\ served = <<>>
  /\ velocityData = NoVelocityData
  /\ gadVelocity = <<>>
  /\ packed = <<>>
  /\ converted = <<>>
  /\ ensured = <<>>
  /\ phase = "down"
  /\ systemConfig = <<>>
  /\ mappingConfig = <<>>
  /\ maxReconnectAttempts = DefaultMaxReconnectAttempts
  /\ reconnectAttempts = 0
  /\ socks = <<>>
  /\ ws = 0
  /\ reconnectTimers = 0
  /\ subscribeTimers = 0
  /\ subscription = <<>>
  /\ helperPathData = EmptyMap
  /\ client = FALSE
  /\ ready = FALSE
  /\ killTimers = 0
  /\ sink = <<>>
  /\ stopped = FALSE
  /\ exhausted = FALSE
  /\ arrived = <<>>
  /\ dispatched = <<>>
  /\ issued = <<>>

NextCache ==
  \/ \E writable \in BOOLEAN : Construct(writable)
  \/ Exit
  \/ \E objectId \in DOMAIN NewSchemas : AddSchema(objectId)
  \/ \E file \in {Missing, Unreadable, Truncated} : SnapshotLost(file)
  \/ \E objectId \in RequestObjectIds, providedResources \in RequestResources :
       Validate(objectId, providedResources)

SpecCache == InitCache /\ [][NextCache]_vars

\* ------------------------------------------- the two validators side by side
\* A schema file whose mandatory item carries no <Name>.
UnnamedItemSchema ==
  [name |-> "On/Off switch",
   items |-> <<Item(5500, "", "Mandatory"),
               Item(5501, "Digital Input Counter", "Optional")>>]

\* The file lwm2m-object-3342.xml with that content is added to the config
\* directory.
AddUnnamedItemSchema ==
  /\ 3342 \notin DOMAIN configDir
  /\ configDir' = [id \in DOMAIN configDir \cup {3342} |->
                     IF id = 3342 THEN UnnamedItemSchema ELSE configDir[id]]
  /\ UNCHANGED <<mandatoryResourcesCache, snapshot, served, codecVars, configVars,
                 connVars, controllerVars, dataVars, stopped>>

\* One request answered twice from the schema files as they are: by the
\* cached validator with a cache generated from them, and by the cached
\* validator without a cache, which falls back to the legacy one.
ValidateBoth(objectId, providedResources) ==
  /\ served = <<>>
  /\ \E cache \in {<<generateMandatoryResourcesCache(configDir)>>} :
       served' = <<[cache |-> cache, objectId |-> objectId,
                    providedResources |-> providedResources,
                    result |-> validateMandatoryResourcesFast(cache, configDir, objectId,
                                                              providedResources),
                    legacy |-> validateMandatoryResourcesFast(<<>>, configDir, objectId,
                                                              providedResources)]>>
  /\ UNCHANGED <<configDir, mandatoryResourcesCache, snapshot, codecVars, configVars,
                 connVars, controllerVars, dataVars, stopped>>

NextBoth ==
  \/ \E objectId \in DOMAIN NewSchemas : AddSchema(objectId)
  \/ AddUnnamedItemSchema
  \/ \E objectId \in RequestObjectIds \cup {3342}, providedResources \in RequestResources :
       ValidateBoth(objectId, providedResources)

SpecBoth == InitCache /\ [][NextBoth]_vars

\* ----------------------------------------------------- the velocity codec
\* The inputs of the codec: speeds in m/s, courses in radians, vertical speeds
\* in m/s, each absent, null, zero, negative, fractional or beyond its range.
Speeds ==
  {Undef, Null, Num(0, 1, 0), Num(10, 1, 0), Num(5, 4, 0), Num(-5, 1, 0),
   Num(600, 1, 0)}
Courses ==
  {Undef, Null, Num(0, 1, 0), Num(1, 2, 1), Num(-1, 2, 1), Num(5, 1, 1),
   Num(2, 1, 1), Num(719, 360, 1), Num(-1, 720, 1)}
VerticalSpeeds == {Undef, Num(0, 1, 0), Num(-3, 1, 0), Num(100, 1, 0)}

Encode ==
  /\ gadVelocity = <<>>
  /\ gadVelocity' = <<encode3GPPVelocity(velocityData)>>
  /\ UNCHANGED <<cacheVars, velocityData, packed, converted, ensured, configVars, connVars,
                 controllerVars, dataVars, stopped>>

InitCodec ==
  /\ configDir = DefaultConfigDir
  /\ mandatoryResourcesCache = <<>>
  /\ snapshot = Missing
  /\ served = <<>>
  /\ velocityData \in {VelocityData(s, c, v) :
                         s \in Speeds, c \in Courses, v \in VerticalSpeeds}
  /\ gadVelocity = <<>>
  /\ packed = <<>>
  /\ converted = <<>>
  /\ ensured = <<>>
  /\ phase = "down"
  /\ systemConfig = <<>>
  /\ mappingConfig = <<>>
  /\ maxReconnectAttempts = DefaultMaxReconnectAttempts
  /\ reconnectAttempts = 0
  /\ socks = <<>>
  /\ ws = 0
  /\ reconnectTimers = 0
  /\ subscribeTimers = 0
  /\ subscription = <<>>
  /\ helperPathData = EmptyMap
  /\ client = FALSE
  /\ ready = FALSE
  /\ killTimers = 0
  /\ sink = <<>>
  /\ stopped = FALSE
  /\ exhausted = FALSE
  /\ arrived = <<>>
  /\ dispatched = <<>>
  /\ issued = <<>>

NextCodec == Encode

SpecCodec == InitCodec /\ [][NextCodec]_vars

\* ------------------------------------------------- the binary packing alone
\* Structures inside the ranges the GADVelocity interface declares.
GADVelocities ==
  [horizontalSpeed : {0, 1, 36, 1024, 2047},
   bearing : {0, 1, 15, 16, 90, 359},
   verticalSpeed : {0, 1, 16, 255},
   verticalDirection : BOOLEAN,
   horizontalUncertainty : {0, 31, 32, 255},
   verticalUncertainty : {0, 1, 255}]

\* One call of encodeGADVelocityBinary.
Pack(gad) ==
  /\ packed = <<>>
  /\ packed' = <<[gadVelocity |-> gad, buffer |-> encodeGADVelocityBinary(gad)]>>
  /\ UNCHANGED <<cacheVars, velocityData, gadVelocity, converted, ensured, configVars,
                 connVars, controllerVars, dataVars, stopped>>

InitHelpers == InitCodec /\ velocityData = NoVelocityData

NextPack == \E gad \in GADVelocities : Pack(gad)

SpecPack == InitHelpers /\ [][NextPack]_vars

\* ------------------------------------------- the conversion registry alone
MaxCalls == 2

\* The registered names, a name nothing defines, and two names the
\* conversions object inherits from Object.prototype.
ConversionNames == conversions \cup {"foo", "toString", "__proto__"}

\* Values of a stream: absent, null, numbers, and navigation objects with
\* both fields, with the speed only, and with none.
ConversionValues ==
  {Undef, Null, Int2Num(5), Num(5, 4, 0),
   Obj([speedOverGround |-> Num(10, 1, 0), courseOverGround |-> Num(1, 2, 1)]),
   Obj([speedOverGround |-> Num(10, 1, 0)]),
   Obj(EmptyMap)}

\* One call of applyConversion; the calls of a run are kept in order.
Convert(conversionType, value) ==
  /\ Len(converted) < MaxCalls
  /\ converted' = Append(converted, [conversionType |-> conversionType,
                                     value |-> value,
                                     result |-> applyConversion(value, conversionType)])
  /\ UNCHANGED <<cacheVars, velocityData, gadVelocity, packed, ensured, configVars,
                 connVars, controllerVars, dataVars, stopped>>

NextConvert ==
  \E conversionType \in ConversionNames, value \in ConversionValues :
    Convert(conversionType, value)

SpecConvert == InitHelpers /\ [][NextConvert]_vars

\* ------------------------------------------- the emergency fallback alone
\* Resource maps of a notification: any of the latitude 6051, the longitude
\* 6052 and the timestamp 5518, each a number, zero, a string, null or
\* undefined.
FallbackResources ==
  UNION {[S -> {Num(54, 1, 0), Int2Num(0), Str("MOB"), Null, Undef}] :
           S \in SUBSET {6051, 6052, 5518}}

\* One call of ensureObject3336Coordinates and a second call on its result.
\* The function works on a spread copy and never writes to its argument, so
\* the argument after the call is the argument.
Ensure(extractedResources) ==
  /\ ensured = <<>>
  /\ \E modifiedResources \in {ensureObject3336Coordinates(extractedResources)} :
       ensured' = <<[before |-> extractedResources,
                     after |-> extractedResources,
                     result |-> modifiedResources,
                     again |-> ensureObject3336Coordinates(modifiedResources)]>>
  /\ UNCHANGED <<cacheVars, velocityData, gadVelocity, packed, converted, configVars,
                 connVars, controllerVars, dataVars, stopped>>

NextEnsure == \E extractedResources \in FallbackResources : Ensure(extractedResources)

SpecEnsure == InitHelpers /\ [][NextEnsure]_vars

\* ------------------------------------------------------------------ claims
\* C1: exhaustion is reported only after maxReconnectAttempts failed
\* connection attempts.  While no connection has opened and stop() has not
\* been called, 'Max reconnection attempts reached' means that at least
\* maxReconnectAttempts connections have failed.
C1_ExhaustionAfterMaxFailures ==
  (exhausted /\ ~stopped /\ \A i \in 1..Len(socks) : ~socks[i].everOpen)
    => Cardinality({i \in 1..Len(socks) : socks[i].st \in {"errored", "closed"}})
         >= maxReconnectAttempts

\* C2: exhausted is terminal.  Once exhaustion has been reported no step
\* starts a connection and no step lowers the retry counter.
C2_ExhaustedIsTerminal ==
  [][exhausted => /\ Len(socks') = Len(socks)
                  /\ reconnectAttempts' >= reconnectAttempts]_vars

\* C3: after stop() no step starts a connection.
C3_NoConnectionAfterStop ==
  [][stopped => Len(socks') = Len(socks)]_vars

\* C4: after stop() no inbound message is dispatched.  No (path, value) pair
\* recorded into the accumulator and no updateObjectResource call belongs to
\* a message that arrived after the stop request.
C4_NoDispatchAfterStop ==
  /\ \A k \in 1..Len(dispatched) : ~dispatched[k].afterStop
  /\ \A j \in 1..Len(issued) : ~issued[j].afterStop

\* C5: single upstream connection.  At most one connection is connecting or
\* open and at most one reconnect timer is pending.
C5_SingleConnection ==
  /\ Cardinality({i \in 1..Len(socks) : socks[i].st \in {"connecting", "open"}}) <= 1
  /\ reconnectTimers <= 1

\* C6: every connection that has opened was sent the unsubscribe-all message,
\* and before anything else.
C6_UnsubscribeOnEveryOpen ==
  \A i \in 1..Len(socks) :
    socks[i].everOpen => /\ socks[i].sent # <<>>
                         /\ socks[i].sent[1] = "unsubscribe"

C8_PerPathSettings ==
  subscription # <<>> =>
    LET mappings == mappingConfig[1].mappings
        defaults == systemConfig[1].subscription
        list == subscription[1].subscribe
    IN \A i \in 1..Len(list), n \in 1..Len(mappings) :
         mappings[n].signalkPath = list[i].path =>
           /\ list[i].period = IF mappings[n].period # Undefined
                               THEN mappings[n].period ELSE defaults.period
           /\ list[i].format = IF mappings[n].format # ""
                               THEN mappings[n].format ELSE defaults.format
           /\ list[i].policy = IF mappings[n].policy # ""
                               THEN mappings[n].policy ELSE defaults.policy
           /\ list[i].minPeriod = IF mappings[n].minPeriod # Undefined
                                  THEN mappings[n].minPeriod ELSE defaults.minPeriod

\* C9: arrival order is preserved end to end.  The dispatched pairs are those
\* of the arrived messages, message after message and within a message in
\* the order of its updates and of their values; the calls follow the order
\* of the pairs that caused them; and the sink holds the commands of the
\* calls in call order.
C9_ArrivalOrder ==
  LET Values(update) == IF update = Null \/ update.values = <<>> THEN <<>>
                        ELSE update.values[1]
      Pairs(message) ==
        IF message = Garbage \/ message.updates = <<>> THEN <<>>
        ELSE Concat([u \in 1..Len(message.updates[1]) |->
                       Values(message.updates[1][u])])
      Tagged(pairs, m) == [p \in 1..Len(pairs) |->
                             [path |-> pairs[p].path, value |-> pairs[p].value,
                              message |-> m]]
      Expected == Concat([m \in 1..Len(arrived) |->
                            Tagged(Pairs(arrived[m].message), m)])
  IN /\ [k \in 1..Len(dispatched) |->
           [path |-> dispatched[k].path, value |-> dispatched[k].value,
            message |-> dispatched[k].message]] = Expected
     /\ \A j \in 1..(Len(issued) - 1) : issued[j].src <= issued[j + 1].src
     /\ sink = [j \in 1..Len(issued) |-> issued[j].cmd]

\* Two messages have arrived, the first with two updates that carry values,
\* and one message alone caused three commands.
C9_Witness ==
  /\ Len(arrived) = 2
  /\ arrived[1].message.k = "delta"
  /\ arrived[1].message.updates # <<>>
  /\ Len(arrived[1].message.updates[1]) = 3
  /\ Len(dispatched) >= 4
  /\ \E m \in 1..2 :
       Cardinality({j \in 1..Len(issued) :
                      dispatched[issued[j].src].message = m}) >= 3
  /\ Len(sink) >= 4

\* C10: template precedence.  A dispatched pair whose path matches the
\* pattern of a template entry causes no call by an exact entry.
C10_TemplatePrecedence ==
  LET mappings == mappingConfig[1].mappings
  IN \A k \in 1..Len(dispatched) :
       (\E n \in 1..Len(mappings) :
          /\ mappings[n].template_mapping
          /\ matchesTemplate(dispatched[k].path, mappings[n].signalkPath))
       => \A j \in 1..Len(issued) : issued[j].src = k => issued[j].via # "exact"

\* A notification whose path is also the path of an exact entry was
\* discarded by the template processor: the pair caused no call at all.
C10_Witness ==
  /\ mappingConfig[1].mappings = <<DeviceTemplate, MobExact>>
  /\ \E k \in 1..Len(dispatched) :
       /\ dispatched[k].path = MobPath
       /\ \A j \in 1..Len(issued) : issued[j].src # k

\* C11: template updates are all-or-nothing.  For a dispatched pair handled
\* by a template entry whose instance table knows the notification type, the
\* final resource set is the resources whose extraction yields a value, with
\* the two coordinates added for object 3336.  When every mandatory resource
\* of the object is in that set, the pair causes exactly one call per
\* resource of the set; otherwise it causes no call at all.  A pair the
\* template processor discards earlier causes no call either.
C11_TemplateAllOrNothing ==
  LET mappings == mappingConfig[1].mappings
      IsTemplateFor(n, path) ==
        /\ mappings[n].template_mapping
        /\ matchesTemplate(path, mappings[n].signalkPath)
      Extracted(mapping, path, value) ==
        {id \in DOMAIN mapping.resources[1] :
           ~IsNullish(IF mapping.resources[1][id] = <<"uuid">> THEN Str(path[3])
                      ELSE extractNestedValue(value, mapping.resources[1][id]))}
      Final(mapping, path, value) ==
        Extracted(mapping, path, value)
          \cup (IF mapping.object_id = 3336 THEN {6051, 6052} ELSE {})
      Mandatory(objectId) ==
        IF objectId \notin DOMAIN configDir THEN {}
        ELSE {configDir[objectId].items[i].id :
                i \in {i \in 1..Len(configDir[objectId].items) :
                         IsMandatoryText(configDir[objectId].items[i].mandatory)}}
      Sent(k) == {j \in 1..Len(issued) : issued[j].src = k /\ issued[j].via = "template"}
      Covers(sent, mapping, set) ==
        /\ Cardinality(sent) = Cardinality(set)
        /\ {issued[j].cmd.resourceId : j \in sent} = set
        /\ \A j \in sent : issued[j].cmd.objectId = mapping.object_id
      AllOf(k, mapping, set) == Covers(Sent(k), mapping, set)
      AllOrNothing(k, mapping, final) ==
        IF Mandatory(mapping.object_id) \subseteq final
        THEN AllOf(k, mapping, final)
        ELSE Sent(k) = {}
      Handled(k, mapping, path, value) ==
        IF /\ Len(path) >= 3
           /\ mapping.instance_mapping # <<>>
           /\ mapping.resources # <<>>
           /\ path[2] \in DOMAIN mapping.instance_mapping[1]
        THEN AllOrNothing(k, mapping, Final(mapping, path, value))
        ELSE Sent(k) = {}
  IN \A k \in 1..Len(dispatched), n \in 1..Len(mappings) :
       (/\ IsTemplateFor(n, dispatched[k].path)
        /\ \A m \in 1..(n - 1) : ~IsTemplateFor(m, dispatched[k].path))
       => Handled(k, mappings[n], dispatched[k].path, dispatched[k].value)

\* Under one template entry, one notification passed validation and caused a
\* call for each of its two resources, and another one, which lacks a
\* mandatory resource, caused no call although one of its resources had a
\* value.
C11_Witness ==
  /\ mappingConfig[1].mappings = <<DeviceTemplate>>
  /\ \E k \in 1..Len(dispatched) :
       /\ dispatched[k].value = Alarm
       /\ Cardinality({j \in 1..Len(issued) : issued[j].src = k}) = 2
  /\ \E k \in 1..Len(dispatched) :
       /\ dispatched[k].value = AlarmNoPosition
       /\ dispatched[k].path = MobPath
       /\ \A j \in 1..Len(issued) : issued[j].src # k

\* C12: emergency fallback.  With the schema of object 3336 making 6051 and
\* 6052 its mandatory resources, a notification <type>.<uuid> handled by a
\* template entry for object 3336 whose instance table knows the type is
\* forwarded whatever its payload: the extracted resources completed by the
\* fallback validate, the pair causes a call for 6051 and a call for 6052,
\* and a coordinate the payload does not give (absent or null) is sent as 0.
C12_EmergencyFallback ==
  LET mappings == mappingConfig[1].mappings
      IsTemplateFor(n, path) ==
        /\ mappings[n].template_mapping
        /\ matchesTemplate(path, mappings[n].signalkPath)
      Given(mapping, value, id) ==
        /\ id \in DOMAIN mapping.resources[1]
        /\ ~IsNullish(extractNestedValue(value, mapping.resources[1][id]))
      Forwarded(k, mapping, value, id) ==
        \E j \in 1..Len(issued) :
          /\ issued[j].src = k
          /\ issued[j].cmd.objectId = 3336
          /\ issued[j].cmd.instanceId = mapping.instance_mapping[1][dispatched[k].path[2]]
          /\ issued[j].cmd.resourceId = id
          /\ ~Given(mapping, value, id) => issued[j].cmd.value = Stringify(Num(0, 1, 0))
      Valid(mapping, path, value) ==
        validateMandatoryResourcesFast(
          mandatoryResourcesCache, configDir, 3336,
          ensureObject3336Coordinates(
            ExtractResources(Ascending(DOMAIN mapping.resources[1]),
                             mapping.resources[1], value, path[3], EmptyMap))).valid
  IN \A k \in 1..Len(dispatched), n \in 1..Len(mappings) :
       (/\ IsTemplateFor(n, dispatched[k].path)
        /\ \A m \in 1..(n - 1) : ~IsTemplateFor(m, dispatched[k].path)
        /\ mappings[n].object_id = 3336
        /\ mappings[n].instance_mapping # <<>>
        /\ mappings[n].resources # <<>>
        /\ Len(dispatched[k].path) >= 3
        /\ dispatched[k].path[2] \in DOMAIN mappings[n].instance_mapping[1])
       => /\ Valid(mappings[n], dispatched[k].path, dispatched[k].value)
          /\ Forwarded(k, mappings[n], dispatched[k].value, 6051)
          /\ Forwarded(k, mappings[n], dispatched[k].value, 6052)

\* A man-overboard notification with a null payload has been forwarded to
\* object 3336 with both coordinates 0, and one whose position is null too.
C12_Witness ==
  /\ mappingConfig[1].mappings = <<NotificationTemplate>>
  /\ \E k \in 1..Len(dispatched) :
       /\ dispatched[k].path = MobPath
       /\ dispatched[k].value = Null
       /\ \A id \in {6051, 6052} :
            \E j \in 1..Len(issued) :
              /\ issued[j].src = k
              /\ issued[j].cmd.resourceId = id
              /\ issued[j].cmd.value = Stringify(Num(0, 1, 0))
  /\ \E k \in 1..Len(dispatched) :
       /\ dispatched[k].value = AlarmNoPosition
       /\ Cardinality({j \in 1..Len(issued) : issued[j].src = k}) = 3

\* C13: single-resource updates are never blocked by validation.  A
\* dispatched pair that no template entry claims and whose exact entry (the
\* first entry with its path) carries object, instance and resource ids
\* causes exactly one call for that entry, the command
\* change /<objectId>/<instanceId>/<resourceId> <converted value>, whether
\* the object's mandatory resources are covered by the single resource or
\* not.  (A conversion that throws ends the processing of the pair.)
C13_SingleResourceNeverBlocked ==
  LET mappings == mappingConfig[1].mappings
      IsTemplateFor(n, path) ==
        /\ mappings[n].template_mapping
        /\ matchesTemplate(path, mappings[n].signalkPath)
      Converted(mapping, value) ==
        IF mapping.conversion # "" THEN applyConversion(value, mapping.conversion)
        ELSE value
      Expected(k, n, convertedValue) ==
        convertedValue # Throw =>
          /\ Cardinality({j \in 1..Len(issued) :
                            issued[j].src = k /\ issued[j].via = "exact"}) = 1
          /\ \E j \in 1..Len(issued) :
               /\ issued[j].src = k
               /\ issued[j].via = "exact"
               /\ issued[j].entry = n
               /\ issued[j].cmd = [op |-> "change",
                                   objectId |-> mappings[n].object_id,
                                   instanceId |-> mappings[n].instance_id,
                                   resourceId |-> mappings[n].resource_id,
                                   value |-> Stringify(convertedValue)]
  IN \A k \in 1..Len(dispatched), n \in 1..Len(mappings) :
       (/\ \A m \in 1..Len(mappings) : ~IsTemplateFor(m, dispatched[k].path)
        /\ mappings[n].signalkPath = dispatched[k].path
        /\ \A m \in 1..(n - 1) : mappings[m].signalkPath # dispatched[k].path
        /\ IsComplete(mappings[n]))
       => Expected(k, n, Converted(mappings[n], dispatched[k].value))

\* One delta carried a course and a temperature.  The course update alone
\* leaves the mandatory resources of object 3336 uncovered, the temperature
\* update covers those of object 3303, and each caused its one command.
C13_Witness ==
  /\ mappingConfig[1].mappings = <<CourseExact, TemperatureExact>>
  /\ ~validateMandatoryResourcesFast(mandatoryResourcesCache, configDir, 3336,
                                     Put(EmptyMap, 5705, Num(1, 2, 1))).valid
  /\ validateMandatoryResourcesFast(mandatoryResourcesCache, configDir, 3303,
                                    Put(EmptyMap, 5700, Num(3003, 10, 0))).valid
  /\ \E k \in 1..Len(dispatched) :
       /\ dispatched[k].path = CoursePath
       /\ \E j \in 1..Len(issued) :
            /\ issued[j].src = k
            /\ issued[j].cmd.objectId = 3336
            /\ issued[j].cmd.resourceId = 5705
  /\ \E k \in 1..Len(dispatched) :
       /\ dispatched[k].path = TemperaturePath
       /\ \E j \in 1..Len(issued) :
            /\ issued[j].src = k
            /\ issued[j].cmd.objectId = 3303
            /\ issued[j].cmd.resourceId = 5700

\* C14: collection-only entries.  A dispatched pair whose exact entry (the
\* first entry with its path) lacks the object id, the instance id or the
\* resource id causes no call for that entry, and the helper accumulator
\* holds, under every path, the value of the last pair dispatched with it.
C14_CollectionOnly ==
  LET mappings == mappingConfig[1].mappings
  IN /\ \A k \in 1..Len(dispatched), n \in 1..Len(mappings) :
          (/\ mappings[n].signalkPath = dispatched[k].path
           /\ \A m \in 1..(n - 1) : mappings[m].signalkPath # dispatched[k].path
           /\ ~IsComplete(mappings[n]))
          => \A j \in 1..Len(issued) : issued[j].src = k => issued[j].entry # n
     /\ \A k \in 1..Len(dispatched) :
          (\A l \in (k + 1)..Len(dispatched) : dispatched[l].path # dispatched[k].path)
          => /\ dispatched[k].path \in DOMAIN helperPathData
             /\ helperPathData[dispatched[k].path] = dispatched[k].value

\* The only entry of the table collects the speed: two speed values have
\* been processed, no call was made and the accumulator holds the second.
C14_Witness ==
  /\ mappingConfig[1].mappings = <<SpeedCollect>>
  /\ Len(dispatched) >= 2
  /\ dispatched[1].path = SpeedPath
  /\ dispatched[1].value = Num(10, 1, 0)
  /\ dispatched[Len(dispatched)].path = SpeedPath
  /\ dispatched[Len(dispatched)].value = Num(5, 4, 0)
  /\ helperPathData[SpeedPath] = Num(5, 4, 0)
  /\ issued = <<>>

\* C15: helper firing.  When a value for the speed or the course path is
\* processed, every complete velocity helper entry causes exactly one call
\* for its resource if the accumulator then holds a speed that is neither
\* absent nor null, carrying the velocity hex of the accumulated speed and
\* course (an absent course encodes as course 0); the inputs may come from
\* different deltas.  No pair at all causes a helper call while the
\* accumulated speed is absent or null.
C15_HelperFiring ==
  LET mappings == mappingConfig[1].mappings
      Last(k, path) ==
        LET at == {l \in 1..k : dispatched[l].path = path}
        IN IF at = {} THEN Undef
           ELSE dispatched[CHOOSE l \in at : \A o \in at : o <= l].value
      VelocityHex(speed, course) ==
        Stringify(convertNavigationTo3GPPVelocity(
                    Obj([speedOverGround |-> speed, courseOverGround |-> course,
                         verticalSpeed |-> Undef])))
      Fired(k, n) == {j \in 1..Len(issued) :
                        issued[j].src = k /\ issued[j].via = "helper"
                        /\ issued[j].entry = n}
      Fires(k, n, speed, course) ==
        /\ Cardinality(Fired(k, n)) = 1
        /\ \A j \in Fired(k, n) :
             /\ issued[j].cmd.objectId = mappings[n].object_id
             /\ issued[j].cmd.instanceId = mappings[n].instance_id
             /\ issued[j].cmd.resourceId = mappings[n].resource_id
             /\ issued[j].cmd.value = VelocityHex(speed, course)
             /\ IsNullish(course) => issued[j].cmd.value = VelocityHex(speed, Num(0, 1, 0))
  IN \A k \in 1..Len(dispatched) :
       IF IsNullish(Last(k, SpeedPath))
       THEN \A j \in 1..Len(issued) : issued[j].src = k => issued[j].via # "helper"
       ELSE dispatched[k].path \in {SpeedPath, CoursePath} =>
              \A n \in 1..Len(mappings) :
                (/\ mappings[n].signalkPath = VelocityHelperPath
                 /\ IsComplete(mappings[n]))
                => Fires(k, n, Last(k, SpeedPath), Last(k, CoursePath))

\* A course arrived while no speed was known and caused no helper call; the
\* speed arrived in a later delta and the helper then sent the velocity of
\* both.
C15_Witness ==
  /\ mappingConfig[1].mappings = <<VelocityHelper>>
  /\ Len(arrived) = 2
  /\ \E k \in 1..Len(dispatched) :
       /\ dispatched[k].path = CoursePath
       /\ dispatched[k].message = 1
       /\ \A j \in 1..Len(issued) : issued[j].src # k
  /\ \E k \in 1..Len(dispatched) :
       /\ dispatched[k].path = SpeedPath
       /\ dispatched[k].message = 2
       /\ \E j \in 1..Len(issued) :
            /\ issued[j].src = k
            /\ issued[j].via = "helper"
            /\ issued[j].cmd.resourceId = 5517
            /\ issued[j].cmd.value =
                 Stringify(convertNavigationTo3GPPVelocity(
                   Obj([speedOverGround |-> dispatched[k].value,
                        courseOverGround |-> Num(1, 2, 1),
                        verticalSpeed |-> Undef])))

C17_PermissiveDefault ==
  served # <<>> =>
    (served[1].objectId \notin DOMAIN served[1].cache[1].objects
     => /\ served[1].result.valid
        /\ served[1].result.missingMandatory = <<>>)

\* A validation of object 3300, whose schema file was added after the cache
\* was built and declares a mandatory resource the input map lacks, was
\* answered valid.
C17_Witness ==
  /\ served # <<>>
  /\ served[1].objectId = 3300
  /\ 3300 \in DOMAIN configDir
  /\ 3300 \notin DOMAIN served[1].cache[1].objects
  /\ served[1].providedResources = EmptyMap
  /\ served[1].result.valid

C19_CacheAutoUpdate ==
  [][(phase = "down" /\ phase' # "down")
      => \A objectId \in DOMAIN configDir :
           objectId \in DOMAIN mandatoryResourcesCache'[1].objects]_vars

\* C20: field ranges.  Every structure the codec returns has horizontalSpeed
\* in 0..2047, bearing in 0..359, verticalSpeed in 0..255 and both
\* uncertainties in 0..255.
C20_FieldRanges ==
  gadVelocity # <<>> =>
    /\ gadVelocity[1].horizontalSpeed \in 0..2047
    /\ gadVelocity[1].bearing \in 0..359
    /\ gadVelocity[1].verticalSpeed \in 0..255
    /\ gadVelocity[1].horizontalUncertainty \in 0..255
    /\ gadVelocity[1].verticalUncertainty \in 0..255

\* C21: horizontal speed formula.  For a speed s >= 0 in m/s the structure
\* has horizontalSpeed = min(round(3.6 s), 2047), with round(x) the integer
\* part of x + 1/2; for a negative speed it is 0; and speed 10 with course
\* pi/2 gives horizontalSpeed 36, bearing 90, verticalSpeed 0,
\* verticalDirection true and both uncertainties 0.
C21_HorizontalSpeed ==
  gadVelocity # <<>> =>
    LET speed == velocityData.speedOverGround
        \* 3.6 * n/d + 1/2 = (36 n + 5 d) / (10 d)
        rounded == (36 * speed.n + 5 * speed.d) \div (10 * speed.d)
    IN /\ (IsNum(speed) /\ speed.n >= 0) =>
            gadVelocity[1].horizontalSpeed
              = (IF rounded < 2047 THEN rounded ELSE 2047)
       /\ (IsNum(speed) /\ speed.n < 0) => gadVelocity[1].horizontalSpeed = 0
       /\ (/\ speed = Num(10, 1, 0)
           /\ velocityData.courseOverGround = Num(1, 2, 1)
           /\ velocityData.verticalSpeed = Undef)
          => gadVelocity[1] = [horizontalSpeed |-> 36, bearing |-> 90,
                               verticalSpeed |-> 0, verticalDirection |-> TRUE,
                               horizontalUncertainty |-> 0,
                               verticalUncertainty |-> 0]

\* The codec has encoded 1.25 m/s, which is 4.5 km/h and rounds to 5.
C21_Witness ==
  /\ velocityData.speedOverGround = Num(5, 4, 0)
  /\ gadVelocity # <<>>
  /\ gadVelocity[1].horizontalSpeed = 5

\* C22: binary layout.  For a structure inside the declared ranges the six
\* bytes, read as one big-endian 48-bit integer, equal
\*   hs*2^37 + bearing*2^28 + vs*2^20 + vd*2^19 + hu*2^11 + vu*2^3.
\* The equation is stated on the three 16-bit words w0*2^32 + w1*2^16 + w2
\* of that integer.  The fields do not overlap: each one is read back from
\* the buffer, so two different structures never pack to the same buffer;
\* the three trailing bits are zero.
C22_BinaryLayout ==
  packed # <<>> =>
    LET g == packed[1].gadVelocity
        b == packed[1].buffer
        vd == IF g.verticalDirection THEN 1 ELSE 0
        w0 == b[1] * 256 + b[2]
        w1 == b[3] * 256 + b[4]
        w2 == b[5] * 256 + b[6]
    IN /\ Len(b) = 6
       /\ \A i \in 1..6 : b[i] \in 0..255
       /\ w0 = g.horizontalSpeed * 32 + g.bearing \div 16
       /\ w1 = (g.bearing % 16) * 4096 + g.verticalSpeed * 16 + vd * 8
                 + g.horizontalUncertainty \div 32
       /\ w2 = (g.horizontalUncertainty % 32) * 2048 + g.verticalUncertainty * 8
       /\ w2 % 8 = 0
       /\ g = [horizontalSpeed |-> w0 \div 32,
               bearing |-> (w0 % 32) * 16 + w1 \div 4096,
               verticalSpeed |-> (w1 % 4096) \div 16,
               verticalDirection |-> ((w1 % 16) \div 8 = 1),
               horizontalUncertainty |-> (w1 % 8) * 32 + w2 \div 2048,
               verticalUncertainty |-> (w2 % 2048) \div 8]

\* A structure with every field at its maximum has been packed: FFF67FFFFFF8.
C22_Witness ==
  /\ packed # <<>>
  /\ packed[1].gadVelocity
       = [horizontalSpeed |-> 2047, bearing |-> 359, verticalSpeed |-> 255,
          verticalDirection |-> TRUE, horizontalUncertainty |-> 255,
          verticalUncertainty |-> 255]
  /\ packed[1].buffer = <<255, 246, 127, 255, 255, 248>>

\* C23: the velocity conversion is total and pure.  Every call of one of the
\* three velocity conversions returns a string of 12 upper-case hexadecimal
\* digits and does not fail, and two calls with the same input return the
\* same string, whatever was called between them.
C23_VelocityTotalAndPure ==
  LET Velocity == {"3gpp_ts_23032_velocity", "3gpp_ts_23032_velocity_from_speed",
                   "3gpp_ts_23032_velocity_navigation"}
      UpperHex == {HexDigits[i] : i \in 1..16}
      IsHex12(r) == /\ r # Throw
                    /\ r.k = "hex"
                    /\ Len(r.h) = 12
                    /\ \A i \in 1..12 : r.h[i] \in UpperHex
  IN \A i \in 1..Len(converted) :
       converted[i].conversionType \in Velocity =>
         /\ IsHex12(converted[i].result)
         /\ \A j \in 1..Len(converted) :
              (/\ converted[j].conversionType = converted[i].conversionType
               /\ converted[j].value = converted[i].value)
              => converted[j].result = converted[i].result

\* C24: an unknown conversion passes the value through.  Every call of
\* applyConversion with a name that is not registered returns the value it
\* was given and raises no error.
C24_UnknownConversion ==
  \A i \in 1..Len(converted) :
    converted[i].conversionType \notin conversions =>
      converted[i].result = converted[i].value

\* C25: a malformed message is discarded as a whole.  When a payload that
\* does not parse, or a delta without an updates list, arrives, the
\* accumulator, the reconnect counter and the connection state stay as they
\* are, nothing is recorded, no command is emitted and the connection stays
\* open; a well-formed message that arrives after it is processed as usual:
\* each of its value entries is recorded and the accumulator holds its value.
C25_MalformedDiscarded ==
  [][Len(arrived') = Len(arrived) + 1 =>
       LET m == arrived'[Len(arrived')].message
           malformed == IF m = Garbage THEN TRUE ELSE m.updates = <<>>
           afterMalformed ==
             /\ arrived # <<>>
             /\ LET p == arrived[Len(arrived)].message
                IN IF p = Garbage THEN TRUE ELSE p.updates = <<>>
       IN /\ malformed =>
               /\ helperPathData' = helperPathData
               /\ UNCHANGED connVars
               /\ dispatched' = dispatched
               /\ issued' = issued
               /\ sink' = sink
               /\ socks'[ws'].st = "open"
          /\ (afterMalformed /\ m = SpeedDelta) =>
               /\ Len(dispatched') = Len(dispatched) + 1
               /\ dispatched'[Len(dispatched')].path = SpeedPath
               /\ dispatched'[Len(dispatched')].value = Int2Num(10)
               /\ Get(helperPathData', SpeedPath) = Int2Num(10)
               /\ socks'[ws'].st = "open"]_vars

\* A message was discarded while the accumulator held a value, and a
\* well-formed message has been processed after a discarded one.
C25_Witness ==
  /\ Len(arrived) = 2
  /\ \/ /\ arrived[1].message = SpeedDelta
        /\ arrived[2].message \in {Garbage, NoUpdates}
        /\ Get(helperPathData, SpeedPath) = Int2Num(10)
     \/ /\ arrived[1].message \in {Garbage, NoUpdates}
        /\ arrived[2].message = SpeedDelta
        /\ Len(dispatched) = 1

\* C26: per-value isolation.  Every value entry of an arrived message that
\* is an object is recorded, whatever the entries in front of it were: a null
\* entry or an entry without a path does not keep the later entries of the
\* same message from being recorded.
C26_PerValueIsolation ==
  \A k \in 1..Len(arrived) :
    LET m == arrived[k].message
        updates == IF m = Garbage THEN <<>>
                   ELSE IF m.updates = <<>> THEN <<>> ELSE m.updates[1]
    IN \A u \in 1..Len(updates) :
         LET values == IF updates[u] = Null THEN <<>>
                       ELSE IF updates[u].values = <<>> THEN <<>>
                       ELSE updates[u].values[1]
         IN \A e \in 1..Len(values) :
              values[e] # Null =>
                \E d \in 1..Len(dispatched) :
                  /\ dispatched[d].message = k
                  /\ dispatched[d].path = values[e].path
                  /\ dispatched[d].value = values[e].value

\* C27: startup gating.  When loading the system configuration, loading the
\* mapping configuration or the reachability probe fails, start() ends with
\* the error: the command sink process has not been started, no upstream
\* connection has been opened, no timer is pending and no subscription has
\* been sent, and none of this happens later.
C27_StartupGating ==
  phase = "failed" =>
    /\ ~client
    /\ ~ready
    /\ socks = <<>>
    /\ ws = 0
    /\ reconnectTimers = 0
    /\ subscribeTimers = 0
    /\ subscription = <<>>
    /\ sink = <<>>

\* start() has ended at the probe, with both configurations loaded.
C27_Witness ==
  /\ phase = "failed"
  /\ systemConfig # <<>>
  /\ mappingConfig # <<>>
  /\ ~client
  /\ socks = <<>>

\* C28: reconnect liveness.  A transport error or a close that happens while
\* the retry budget is not used up and stop() has not been called arms the
\* reconnect timer, and a new connection attempt follows; and a connection
\* that has opened is sent the unsubscribe-all and then the subscribe message
\* for as long as it stays open.  (A run that ends at the cap on sockets with
\* a reconnect timer pending is cut short and shows nothing.)
C28_ReconnectLiveness ==
  /\ [][(/\ \E i \in 1..Len(socks) :
              /\ socks[i].st # socks'[i].st
              /\ socks'[i].st \in {"errored", "closed"}
         /\ reconnectAttempts < maxReconnectAttempts
         /\ ~stopped)
        => reconnectTimers' = reconnectTimers + 1]_vars
  /\ \A n \in 0..(MaxSocks - 1) :
       (reconnectTimers > 0 /\ Len(socks) = n) ~> (Len(socks) > n)
  /\ \A i \in 1..MaxSocks :
       (i <= Len(socks) /\ socks[i].st = "open")
         ~> (/\ i <= Len(socks)
             /\ \/ socks[i].st # "open"
                \/ reconnectTimers > 0 /\ Len(socks) = MaxSocks  \* the run is cut
                \/ \E a, b \in 1..Len(socks[i].sent) :
                     /\ a < b
                     /\ socks[i].sent[a] = "unsubscribe"
                     /\ socks[i].sent[b] = "subscribe")

\* C29: accumulator recording.  When a message is processed, the accumulator
\* afterwards holds, under the path of every pair that was processed, the
\* value of the last such pair, whether the path is template-matched,
\* exactly mapped, collection-only or unmapped; the entry of every other path
\* is as it was, and no entry is removed.
C29_AccumulatorFrame ==
  [][LET new == SubSeq(dispatched', Len(dispatched) + 1, Len(dispatched'))
         Last(p) == CHOOSE k \in 1..Len(new) :
                      /\ new[k].path = p
                      /\ \A l \in (k + 1)..Len(new) : new[l].path # p
     IN /\ \A k \in 1..Len(new) :
             /\ new[k].path \in DOMAIN helperPathData'
             /\ helperPathData'[new[k].path] = new[Last(new[k].path)].value
        /\ \A p \in DOMAIN helperPathData :
             /\ p \in DOMAIN helperPathData'
             /\ (\A k \in 1..Len(new) : new[k].path # p)
                => helperPathData'[p] = helperPathData[p]
        /\ \A p \in DOMAIN helperPathData' :
             \/ p \in DOMAIN helperPathData
             \/ \E k \in 1..Len(new) : new[k].path = p]_vars

\* With an exact entry and a template entry in the table, a course (unmapped)
\* and a temperature (exact) were recorded first, then an alarm (template)
\* and a null speed (unmapped): the accumulator holds all four.
C29_Witness ==
  /\ mappingConfig[1].mappings = <<TemperatureExact, NotificationTemplate>>
  /\ Len(dispatched) = 4
  /\ dispatched[1].path = CoursePath
  /\ DOMAIN helperPathData = {CoursePath, TemperaturePath, MobPath, SpeedPath}
  /\ helperPathData[CoursePath] = Num(1, 2, 1)
  /\ helperPathData[TemperaturePath] = Num(3003, 10, 0)
  /\ helperPathData[MobPath] = Alarm
  /\ helperPathData[SpeedPath] = Null

\* C30: the output of a template update that passes validation.  The final
\* resource set of a notification is the resources whose extraction yields a
\* value, with the two coordinates filled in for object 3336.  When the
\* validator accepts it, the notification causes exactly one call per
\* resource of that set, each with the object id of the entry and the
\* instance id the entry gives the notification type; a resource whose
\* extraction path is 'uuid' carries the third segment of the path, whatever
\* the payload holds.
C30_TemplateOutput ==
  LET mappings == mappingConfig[1].mappings
      IsTemplateFor(n, path) ==
        /\ mappings[n].template_mapping
        /\ matchesTemplate(path, mappings[n].signalkPath)
      Extracted(resources, path, value) ==
        [id \in DOMAIN resources |->
           IF resources[id] = <<"uuid">> THEN Str(path[3])
           ELSE extractNestedValue(value, resources[id])]
      Final(objectId, extracted) ==
        [id \in {id \in DOMAIN extracted : ~IsNullish(extracted[id])}
                  \cup (IF objectId = 3336 THEN {6051, 6052} ELSE {}) |->
           IF id \in DOMAIN extracted /\ ~IsNullish(extracted[id])
           THEN extracted[id] ELSE Int2Num(0)]
      Accepted(validation) == IF validation = Throw THEN FALSE ELSE validation.valid
      Sent(k) == {j \in 1..Len(issued) : issued[j].src = k /\ issued[j].via = "template"}
      OnePerResource(sent, objectId, instanceId, final) ==
        /\ Cardinality(sent) = Cardinality(DOMAIN final)
        /\ \A id \in DOMAIN final :
             \E j \in sent :
               /\ issued[j].cmd.op = "change"
               /\ issued[j].cmd.objectId = objectId
               /\ issued[j].cmd.instanceId = instanceId
               /\ issued[j].cmd.resourceId = id
               /\ issued[j].cmd.value = Stringify(final[id])
      Output(k, objectId, instanceId, final) ==
        Accepted(validateMandatoryResourcesFast(mandatoryResourcesCache, configDir,
                                                objectId, final))
          => OnePerResource(Sent(k), objectId, instanceId, final)
  IN \A k \in 1..Len(dispatched), n \in 1..Len(mappings) :
       (/\ IsTemplateFor(n, dispatched[k].path)
        /\ \A m \in 1..(n - 1) : ~IsTemplateFor(m, dispatched[k].path)
        /\ mappings[n].instance_mapping # <<>>
        /\ mappings[n].resources # <<>>
        /\ Len(dispatched[k].path) >= 3
        /\ dispatched[k].path[2] \in DOMAIN mappings[n].instance_mapping[1])
       => Output(k, mappings[n].object_id,
                 mappings[n].instance_mapping[1][dispatched[k].path[2]],
                 Final(mappings[n].object_id,
                       Extracted(mappings[n].resources[1], dispatched[k].path,
                                 dispatched[k].value)))

\* A fire alarm under the device entry has passed validation: two calls, for
\* object 3 instance 2, one of them carrying the identifier u2 of the path.
C30_Witness ==
  /\ mappingConfig[1].mappings = <<DeviceTemplate>>
  /\ \E k \in 1..Len(dispatched) :
       /\ dispatched[k].path = FirePath
       /\ Cardinality({j \in 1..Len(issued) : issued[j].src = k}) = 2
       /\ \E j \in 1..Len(issued) :
            /\ issued[j].src = k
            /\ issued[j].cmd.objectId = 3
            /\ issued[j].cmd.instanceId = 2
            /\ issued[j].cmd.resourceId = 16
            /\ issued[j].cmd.value = Str("u2")

\* C31: unknown notification type.  A recorded pair whose path matches a
\* template entry, and whose path has fewer than three segments or whose
\* type segment is not a key of the entry's instance table, causes no call
\* by the template processor and none by the exact-match branch.
C31_UnknownTypeDiscarded ==
  LET mappings == mappingConfig[1].mappings
      IsTemplateFor(n, path) ==
        /\ mappings[n].template_mapping
        /\ matchesTemplate(path, mappings[n].signalkPath)
      Unknown(mapping, path) ==
        \/ Len(path) < 3
        \/ /\ mapping.instance_mapping # <<>>
           /\ path[2] \notin DOMAIN mapping.instance_mapping[1]
  IN \A k \in 1..Len(dispatched), n \in 1..Len(mappings) :
       (/\ IsTemplateFor(n, dispatched[k].path)
        /\ \A m \in 1..(n - 1) : ~IsTemplateFor(m, dispatched[k].path)
        /\ Unknown(mappings[n], dispatched[k].path))
       => \A j \in 1..Len(issued) :
            issued[j].src = k => issued[j].via \notin {"template", "exact"}

\* A cache that holds, for every schema file of one state of the config
\* directory, the complete entry of that file.
CompletelyBuilt(cache) ==
  \E dir \in ConfigDirs :
    /\ DOMAIN cache.objects = DOMAIN dir
    /\ \A id \in DOMAIN dir :
         LET items == dir[id].items
             entry == cache.objects[id].mandatoryResources
         IN {entry[i] : i \in 1..Len(entry)}
              = {items[i].id : i \in {j \in 1..Len(items) :
                                       IsMandatoryText(items[j].mandatory)}}

C33_SinkOnlyWhenReady ==
  /\ [](LET NotQuit(c) == c.op # "quit"
            WasWritten(e) == e.written
        IN \E delivered \in {SelectSeq(issued, WasWritten)} :
             SelectSeq(sink, NotQuit)
               = [j \in 1..Len(delivered) |-> delivered[j].cmd])
  /\ [][/\ sink' # sink
           => /\ client /\ ready
              /\ \E new \in {SubSeq(issued', Len(issued) + 1, Len(issued'))} :
                   sink' = sink \o IF new = <<>> THEN <<[op |-> "quit"]>>
                                   ELSE [j \in 1..Len(new) |-> new[j].cmd]
        /\ (issued' # issued /\ ~(client /\ ready)) => sink' = sink]_vars

\* A command was dropped while the client was not ready, and a later one was
\* written once it was.
C33_Witness ==
  \E j, k \in 1..Len(issued) :
    /\ j < k
    /\ ~issued[j].written
    /\ issued[k].written
    /\ Len(sink) = 1
    /\ sink[1] = issued[k].cmd

\* C34: the retry counter.  reconnectAttempts stays between 0 and
\* maxReconnectAttempts; a socket's open sets it to 0; a step that arms a
\* reconnect timer adds exactly 1 to it; and a connection that has opened
\* meets its next failure with the counter at 0, the full retry budget.
C34_RetryCounter ==
  /\ [](reconnectAttempts >= 0 /\ reconnectAttempts <= maxReconnectAttempts)
  /\ [][/\ (\E i \in 1..Len(socks) : socks[i].st = "connecting" /\ socks'[i].st = "open")
           => reconnectAttempts' = 0
        /\ reconnectTimers' > reconnectTimers
           => /\ reconnectTimers' = reconnectTimers + 1
              /\ reconnectAttempts' = reconnectAttempts + 1
        /\ reconnectAttempts' > reconnectAttempts
           => reconnectTimers' = reconnectTimers + 1
        /\ \A i \in 1..Len(socks) :
             (socks[i].st = "open" /\ socks'[i].st \in {"errored", "closed"})
               => reconnectAttempts = 0]_vars

\* The value last recorded for a path among the first k recorded pairs.
LastRecorded(k, path) ==
  LET at == {l \in 1..k : dispatched[l].path = path}
  IN IF at = {} THEN Undef
     ELSE dispatched[CHOOSE l \in at : \A o \in at : o <= l].value

\* The calls the helper entry n made while pair k was processed.
HelperCalls(k, n) ==
  {j \in 1..Len(issued) :
     issued[j].src = k /\ issued[j].via = "helper" /\ issued[j].entry = n}

\* C35: helper re-emission.  While the accumulated speed is neither absent
\* nor null, the processing of every pair, whatever its path, makes every
\* complete velocity helper entry issue exactly one command; for a pair whose
\* path is neither the speed nor the course path the command carries the
\* same velocity hex as the entry's command for the pair before.
C35_HelperReEmission ==
  \A k \in 1..Len(dispatched), n \in 1..Len(mappingConfig[1].mappings) :
    (/\ mappingConfig[1].mappings[n].signalkPath = VelocityHelperPath
     /\ IsComplete(mappingConfig[1].mappings[n])
     /\ ~IsNullish(LastRecorded(k, SpeedPath)))
    => /\ Cardinality(HelperCalls(k, n)) = 1
       /\ (/\ dispatched[k].path \notin {SpeedPath, CoursePath}
           /\ k > 1
           /\ ~IsNullish(LastRecorded(k - 1, SpeedPath)))
          => \A j \in HelperCalls(k, n), i \in HelperCalls(k - 1, n) :
               issued[j].cmd = issued[i].cmd

\* After a speed, a notification claimed by a template entry made the
\* helper entry repeat its command before the template's own commands.
C35_Witness ==
  /\ Len(mappingConfig[1].mappings) = 2
  /\ mappingConfig[1].mappings[1] = VelocityHelper
  /\ mappingConfig[1].mappings[2].template_mapping
  /\ \E k \in 2..Len(dispatched) :
       /\ dispatched[k].path = MobPath
       /\ \E j \in HelperCalls(k, 1) :
            \E i \in 1..(j - 1) : issued[i].src < k /\ issued[i].cmd = issued[j].cmd
       /\ \E j \in 1..Len(issued) : issued[j].src = k /\ issued[j].via = "template"

\* The velocity hex of an accumulated speed and course.
HelperHex(speed, course) ==
  Stringify(convertNavigationTo3GPPVelocity(
              Obj([speedOverGround |-> speed, courseOverGround |-> course,
                   verticalSpeed |-> Undef])))

\* C36: command order within one value.  Among the calls made for one
\* recorded pair every helper call precedes every call of the exact-match
\* and of the template branch, in the order of issue and in the sink; and a
\* helper call made for a speed or course pair carries the velocity hex of
\* an accumulator that holds that pair's value.
C36_HelperFirst ==
  /\ \A i, j \in 1..Len(issued) :
       (/\ issued[i].src = issued[j].src
        /\ issued[i].via = "helper"
        /\ issued[j].via \in {"exact", "template"})
       => /\ i < j
          /\ Len(sink) = Len(issued)
          /\ sink[i] = issued[i].cmd
          /\ sink[j] = issued[j].cmd
  /\ \A j \in 1..Len(issued) :
       (/\ issued[j].via = "helper"
        /\ dispatched[issued[j].src].path \in {SpeedPath, CoursePath})
       => /\ LastRecorded(issued[j].src, dispatched[issued[j].src].path)
               = dispatched[issued[j].src].value
          /\ issued[j].cmd.value
               = HelperHex(LastRecorded(issued[j].src, SpeedPath),
                           LastRecorded(issued[j].src, CoursePath))

\* A course that followed a speed caused the helper command, carrying the
\* new course, and then the command of the course's own entry.
C36_Witness ==
  /\ mappingConfig[1].mappings = <<VelocityHelper, CourseExact>>
  /\ Len(issued) >= 3
  /\ \E j \in 2..(Len(issued) - 1) :
       /\ issued[j].via = "helper"
       /\ issued[j + 1].via = "exact"
       /\ issued[j + 1].src = issued[j].src
       /\ dispatched[issued[j].src].path = CoursePath
       /\ issued[j].cmd.value # issued[j - 1].cmd.value
       /\ issued[j].cmd.value = HelperHex(Int2Num(10), Num(1, 2, 1))

\* C37: the accumulator survives connection loss.  A step that records no
\* pair (an open, an error, a close, a reconnect or subscribe timer) leaves
\* the accumulator unchanged; no step removes an entry, and an entry changes
\* only to the value of a pair recorded for its path in that step; so every
\* helper command carries the velocity hex of the speed and course the
\* accumulator then holds, on whichever connection they arrived.
C37_AccumulatorSurvives ==
  [][/\ dispatched' = dispatched => helperPathData' = helperPathData
     /\ DOMAIN helperPathData \subseteq DOMAIN helperPathData'
     /\ \A p \in DOMAIN helperPathData' :
          (p \notin DOMAIN helperPathData \/ helperPathData'[p] # helperPathData[p])
          => \E k \in (Len(dispatched) + 1)..Len(dispatched') :
               /\ dispatched'[k].path = p
               /\ dispatched'[k].value = helperPathData'[p]
     /\ \A j \in (Len(issued) + 1)..Len(issued') :
          issued'[j].via = "helper"
          => issued'[j].cmd.value
               = HelperHex(Get(helperPathData', SpeedPath),
                           Get(helperPathData', CoursePath))]_vars

\* A speed arrived on the first connection, which then closed; the first
\* value on the second connection, a course, caused a helper command that
\* carries the speed of the first connection.
C37_Witness ==
  /\ Len(arrived) = 2
  /\ arrived[1].sock = 1
  /\ arrived[2].sock = 2
  /\ socks[1].st = "closed"
  /\ dispatched[1].path = SpeedPath
  /\ dispatched[2].path = CoursePath
  /\ helperPathData[SpeedPath] = Int2Num(10)
  /\ \E j \in 1..Len(issued) :
       /\ issued[j].src = 2
       /\ issued[j].via = "helper"
       /\ issued[j].cmd.value = HelperHex(Int2Num(10), Num(1, 2, 1))

C39_AbsentExtraction ==
  \A k \in 1..Len(dispatched), n \in 1..Len(mappingConfig[1].mappings) :
    LET mapping == mappingConfig[1].mappings[n]
        path == dispatched[k].path
        IsTemplateFor(m) ==
          /\ mappingConfig[1].mappings[m].template_mapping
          /\ matchesTemplate(path, mappingConfig[1].mappings[m].signalkPath)
        Filled(id) == mapping.object_id = 3336 /\ id \in {6051, 6052}
        Mandatory(id) ==
          /\ mapping.object_id \in DOMAIN configDir
          /\ \E i \in 1..Len(configDir[mapping.object_id].items) :
               /\ configDir[mapping.object_id].items[i].id = id
               /\ IsMandatoryText(configDir[mapping.object_id].items[i].mandatory)
        Sent == {j \in 1..Len(issued) : issued[j].src = k /\ issued[j].via = "template"}
    IN (/\ IsTemplateFor(n)
        /\ \A m \in 1..(n - 1) : ~IsTemplateFor(m)
        /\ Len(path) >= 3
        /\ mapping.instance_mapping # <<>>
        /\ mapping.resources # <<>>
        /\ path[2] \in DOMAIN mapping.instance_mapping[1])
       => \A id \in DOMAIN mapping.resources[1] :
            (/\ mapping.resources[1][id] # <<"uuid">>
             /\ IsNullish(extractNestedValue(dispatched[k].value, mapping.resources[1][id]))
             /\ ~Filled(id))
            => /\ \A j \in Sent : issued[j].cmd.resourceId # id
               /\ Mandatory(id) => Sent = {}

\* An alarm without an error code arrived under the device template, whose
\* object marks the error code mandatory: nothing was sent for it, although
\* its identifier could be extracted.
C39_Witness ==
  /\ mappingConfig[1].mappings = <<DeviceTemplate>>
  /\ \E k \in 1..Len(dispatched) :
       /\ dispatched[k].path = MobPath
       /\ dispatched[k].value = AlarmNoPosition
       /\ IsNullish(extractNestedValue(dispatched[k].value, DeviceTemplate.resources[1][11]))
       /\ \A j \in 1..Len(issued) : issued[j].src # k

\* C40: the two validators agree.  For one state of the schema files, one
\* object id and one resource map, the cached validator and the legacy
\* validator return the same valid flag and report the same set of missing
\* mandatory resource ids.
C40_ValidatorsAgree ==
  served # <<>> =>
    LET result == served[1].result
        legacy == served[1].legacy
        Ids(missing) == {missing[i].id : i \in 1..Len(missing)}
    IN /\ result.valid = legacy.valid
       /\ Ids(result.missingMandatory) = Ids(legacy.missingMandatory)

====
